---- MODULE Spec2Model ----
(***************************************************************************)
(* DIOS: the behavioral reactor (app/services/behavior_engine.py) and the  *)
(* clarity evaluator (app/services/north_star_service.py) over a           *)
(* transactional relational store with unique constraints.                 *)
(*                                                                         *)
(* Dates are day ordinals.  Decimal scores with 4 places are integers      *)
(* scaled by 10000 (Decimal("0.4") is 4000, Decimal("1.0") is 10000).      *)
(***************************************************************************)
EXTENDS Integers, Sequences, FiniteSets, TLC

VARIABLES
    entries,               \* committed rows of table entries
    tasks,                 \* committed rows of table tasks
    transactions,          \* committed rows of table transactions
    narrative_memory,      \* committed rows of table narrative_memory
    north_star_snapshots,  \* committed rows of table north_star_snapshots
    behavior_events,       \* committed rows of table behavior_events
    id_seq,                \* primary-key sequences of entries, transactions,
                           \* narrative_memory and north_star_snapshots
    event_id_seq,          \* primary-key sequence of behavior_events
    task_id_seq,           \* primary-key sequence of tasks
    sess,                  \* per reactor caller: its request (session, locals, position)
    calls,                 \* evaluate_and_react calls started so far
    callers,               \* the callers that call the reactor
    given,                 \* the WeeklyClarity a unit test passes, or NoWeekly
    ops,                   \* writing requests (ingest, compile, weekly score) served so far
    resp,                  \* the response of the request served last
    facts,                 \* committed rows of table facts
    metrics_daily,         \* committed rows of table metrics_daily
    projects,              \* committed rows of table projects
    rules_router,          \* rows of table rules_router, in insertion order
    hist,                  \* history: identifiers the compilers returned per key, and
                           \* the last weekly result per reference date
    req,                   \* per snapshot writer: its request (locals, position)
    daily_logs,            \* committed rows of table daily_logs
    memory_snapshots       \* committed rows of table memory_snapshots

reactor_vars == <<behavior_events, event_id_seq, sess, calls, callers, given>>
domain_vars == <<facts, metrics_daily, projects, daily_logs, memory_snapshots>>
clarity_vars == <<entries, transactions, narrative_memory, north_star_snapshots, id_seq, ops, resp,
                  facts, metrics_daily, projects, rules_router, hist, req,
                  daily_logs, memory_snapshots>>
vars == <<entries, tasks, transactions, narrative_memory, north_star_snapshots,
          behavior_events, id_seq, event_id_seq, task_id_seq, sess, calls, callers,
          given, ops, resp, facts, metrics_daily, projects, rules_router, hist, req,
          daily_logs, memory_snapshots>>

\* ------------------------------------------------------------------ bounds
NumCallers == 2
MaxCalls == 2
MaxOps == 2
MaxRules == 2
MaxItems == 3

Callers == 1..NumCallers

\* ------------------------------------------------------- program constants
TOTAL_DAYS == 7
_CLARITY_WARNING_THRESHOLD == 4000
_CONSECUTIVE_INCOMPLETE == 3
SCORE_ONE == 10000
MIN_EVENTS == 3

CLARITY_WARNING == "clarity_warning"
RESET_DAY_PROTOCOL == "reset_day_protocol"
PERFECT_WEEK == "perfect_week"
EventTypes == {CLARITY_WARNING, RESET_DAY_PROTOCOL, PERFECT_WEEK}

RESET_TITLE == "Reset Day Protocol"

\* the calendar: days 1..8; windows end on day 7 or day 8
Days == 1..(TOTAL_DAYS + 1)
RefDates == {TOTAL_DAYS, TOTAL_DAYS + 1}

\* ----------------------------------------------------------------- helpers
\* str(date): the ISO text of a date, kept distinct from the date itself
DateStr(d) == <<"iso", d>>

\* list slicing seq[-n:]
Tail_n(seq, n) ==
    IF Len(seq) <= n THEN seq ELSE SubSeq(seq, Len(seq) - n + 1, Len(seq))

CountTrue(flags) == Cardinality({i \in DOMAIN flags : flags[i]})

\* the quotient cut off after 4 places
Quantize_down(complete, total) == (complete * 10000) \div total

\* (Decimal(complete) / Decimal(total)).quantize(Decimal("0.0001"), ROUND_HALF_UP)
Quantize(complete, total) == (2 * complete * 10000 + total) \div (2 * total)

\* ------------------------------------------------- WeeklyClarity test inputs
\* _make_weekly of the unit tests, with the score given separately so that a
\* boundary score can be injected
MakeWeekly(end, flags, score) ==
    [ reference_date |-> end,
      clarity_score  |-> score,
      complete_days  |-> CountTrue(flags),
      total_days     |-> TOTAL_DAYS,
      days           |-> [i \in DOMAIN flags |->
                            [ day                 |-> end - (Len(flags) - i),
                              is_complete         |-> flags[i],
                              event_count         |-> IF flags[i] THEN 5 ELSE 0,
                              has_outcome         |-> flags[i],
                              has_memory_snapshot |-> flags[i] ] ] ]

WeekFlags == [1..TOTAL_DAYS -> BOOLEAN]

Pattern(k, tailOk) ==
    [i \in 1..TOTAL_DAYS |-> IF i <= k THEN TRUE
                             ELSE IF i = TOTAL_DAYS THEN tailOk ELSE FALSE]

\* weeks passed by concurrent callers: all incomplete (warning + reset), first
\* four complete (reset only), only the last complete (warning only), perfect,
\* and four complete with the last one among them (no rule)
RaceFlags ==
    { Pattern(0, FALSE), Pattern(4, FALSE), Pattern(0, TRUE), Pattern(7, TRUE),
      Pattern(3, TRUE) }

RaceInputs ==
    { MakeWeekly(r, f, Quantize(CountTrue(f), TOTAL_DAYS)) : r \in RefDates, f \in RaceFlags }

\* scores injected at the rule boundaries
BoundaryScores == { 3999, 4000, 4001, 9999, 10000 }

RuleInputs ==
    { MakeWeekly(TOTAL_DAYS, f, s) :
        f \in WeekFlags, s \in BoundaryScores } \cup
    { MakeWeekly(TOTAL_DAYS, f, Quantize(CountTrue(f), TOTAL_DAYS)) : f \in WeekFlags } \cup
    { MakeWeekly(TOTAL_DAYS, [i \in 1..2 |-> FALSE], 0) }

\* ---------------------------------------------------------------- sessions
EmptyResult ==
    [ events_created |-> <<>>, events_skipped |-> <<>>, task_created |-> FALSE ]

NoWeekly == MakeWeekly(0, <<>>, 0)

IdleSession ==
    [ pc         |-> "idle",
      weekly     |-> NoWeekly,
      result     |-> EmptyResult,
      new_events |-> <<>>,      \* Session.new: BehaviorEvent objects added, not flushed
      new_tasks  |-> <<>>,      \* Session.new: Task objects added, not flushed
      ins_events |-> {},        \* rows inserted in the open transaction
      ins_tasks  |-> {},
      commits    |-> 0,         \* db.commit() calls of the current call
      lost       |-> {} ]        \* event types whose insert hit the unique constraint

NoResponse == [ kind |-> "none" ]

NoKey == << 0, "none" >>

IdleRequest ==
    [ pc       |-> "idle",
      op       |-> "none",       \* compile_day, compile_week or north_star
      date     |-> 0,            \* day, week_start or reference_date
      i        |-> 0,            \* index of the day the loop is at
      daily    |-> <<>>,         \* the DailyClarity results computed so far
      key      |-> NoKey,        \* the key _upsert_snapshot was called with
      value    |-> NoResponse,   \* the fields or the WeeklyClarity to store
      existing |-> 0,            \* id of the row the lookup found, 0 for None
      id       |-> 0,            \* id of the snapshot the call returned
      invoked  |-> <<>>,         \* days compile_week_memory called compile_day_memory for
      failed   |-> NoKey ]       \* key whose INSERT raised IntegrityError

\* -------------------------------------------------------------- the store
\* UniqueConstraint("event_type", "reference_date"): would inserting rows
\* `news` next to `rows` violate it?
uq_violation_never(rows, news) == FALSE

uq_behavior_event_type_date(rows, news) ==
    \E n \in news : \E r \in rows :
        r.event_type = n.event_type /\ r.reference_date = n.reference_date

SeqRange(seq) == { seq[i] : i \in DOMAIN seq }

\* rows another open transaction has inserted and not yet committed
UncommittedOfOthers(c) == UNION { sess[d].ins_events : d \in Callers \ {c} }

\* an INSERT waits while another transaction holds an uncommitted row of the same key
InsertBlocked(c) ==
    \E n \in SeqRange(sess[c].new_events) : \E r \in UncommittedOfOthers(c) :
        r.event_type = n.event_type /\ r.reference_date = n.reference_date

\* the INSERTs of a flush raise IntegrityError
FlushViolates(c) ==
    uq_behavior_event_type_date(behavior_events \cup sess[c].ins_events,
                                SeqRange(sess[c].new_events))

WithIds(seq, base) == { [seq[i] EXCEPT !.id = base + i] : i \in DOMAIN seq }

\* Session.flush(): INSERT every pending object, assigning primary keys
Flushed(c) ==
    [ sess[c] EXCEPT
        !.ins_events = @ \cup WithIds(sess[c].new_events, event_id_seq),
        !.ins_tasks  = @ \cup WithIds(sess[c].new_tasks, task_id_seq),
        !.new_events = <<>>,
        !.new_tasks  = <<>> ]

\* the INSERTs as they would be if they replaced the rows of their reference date
insert_events_replacing(rows, news) ==
    { r \in rows : \A n \in news : n.reference_date # r.reference_date } \cup news

\* COMMIT: the rows the transaction inserted join the committed rows
insert_events(rows, news) == rows \cup news

\* Session.rollback() / Session.close(): the open transaction is discarded
RolledBack(s) ==
    [ s EXCEPT !.new_events = <<>>, !.new_tasks = <<>>,
               !.ins_events = {}, !.ins_tasks = {} ]

\* --------------------------------------------------------------- the reactor
_event_exists_never(c, event_type, ref_date) == FALSE

\* the query runs in the caller's transaction and sees committed rows and the
\* transaction's own inserts; the session does not autoflush, so objects added
\* and not yet flushed are not sent by it
_event_exists(c, event_type, ref_date) ==
    \E e \in behavior_events \cup sess[c].ins_events :
        e.event_type = event_type /\ e.reference_date = ref_date

NewEvent(event_type, ref_date, meta) ==
    [ id |-> 0, event_type |-> event_type, reference_date |-> ref_date,
      event_metadata |-> meta ]

\* _emit: the session after the call, and whether the event was added
_emit(c, s, event_type, ref_date, meta) ==
    IF _event_exists(c, event_type, ref_date)
    THEN [ inserted |-> FALSE, s |-> s ]
    ELSE [ inserted |-> TRUE,
           s |-> [ s EXCEPT !.new_events = Append(@, NewEvent(event_type, ref_date, meta)) ] ]

Report(s, inserted, event_type) ==
    IF inserted
    THEN [ s EXCEPT !.result.events_created = Append(@, event_type) ]
    ELSE [ s EXCEPT !.result.events_skipped = Append(@, event_type) ]

\* evaluate_and_react is entered with a WeeklyClarity; the request gets a
\* fresh session and a fresh EngineResult
evaluate_and_react(c) ==
    /\ sess[c].pc \in {"idle", "returned", "raised"}
    /\ calls < MaxCalls
    /\ calls' = calls + 1
    /\ \E w \in (IF given = NoWeekly THEN RaceInputs ELSE {given}) :
         sess' = [ sess EXCEPT ![c] = [ IdleSession EXCEPT !.pc = "rule1", !.weekly = w ] ]
    /\ UNCHANGED <<behavior_events, tasks, event_id_seq, task_id_seq, callers, given, clarity_vars>>

ClarityWarningTrigger_inclusive(w) == w.clarity_score <= _CLARITY_WARNING_THRESHOLD

ClarityWarningTrigger(w) == ~ (w.clarity_score >= _CLARITY_WARNING_THRESHOLD)

\* the rule as it would be with an early exit after reporting
_rule_clarity_warning_early_exit(c) ==
    /\ sess[c].pc = "rule1"
    /\ LET s == sess[c]
           w == s.weekly
           r == _emit(c, s, CLARITY_WARNING, w.reference_date,
                      [ score         |-> w.clarity_score,
                        complete_days |-> w.complete_days,
                        total_days    |-> w.total_days,
                        threshold     |-> _CLARITY_WARNING_THRESHOLD ])
       IN  sess' = [ sess EXCEPT ![c] =
                      IF ~ ClarityWarningTrigger(w)
                      THEN [ s EXCEPT !.pc = "rule2" ]
                      ELSE [ Report(r.s, r.inserted, CLARITY_WARNING) EXCEPT !.pc = "commit" ] ]
    /\ UNCHANGED <<behavior_events, tasks, event_id_seq, task_id_seq, calls, callers, given, clarity_vars>>

_rule_clarity_warning(c) ==
    /\ sess[c].pc = "rule1"
    /\ LET s == sess[c]
           w == s.weekly
           r == _emit(c, s, CLARITY_WARNING, w.reference_date,
                      [ score         |-> w.clarity_score,
                        complete_days |-> w.complete_days,
                        total_days    |-> w.total_days,
                        threshold     |-> _CLARITY_WARNING_THRESHOLD ])
       IN  sess' = [ sess EXCEPT ![c] =
                      IF ~ ClarityWarningTrigger(w)
                      THEN [ s EXCEPT !.pc = "rule2" ]
                      ELSE [ Report(r.s, r.inserted, CLARITY_WARNING) EXCEPT !.pc = "rule2" ] ]
    /\ UNCHANGED <<behavior_events, tasks, event_id_seq, task_id_seq, calls, callers, given, clarity_vars>>

ResetTail_head(w) ==
    IF Len(w.days) <= _CONSECUTIVE_INCOMPLETE THEN w.days
    ELSE SubSeq(w.days, 1, _CONSECUTIVE_INCOMPLETE)

\* tail = weekly.days[-_CONSECUTIVE_INCOMPLETE:]
ResetTail(w) == Tail_n(w.days, _CONSECUTIVE_INCOMPLETE)

ResetTrigger(w) ==
    /\ ~ (Len(ResetTail(w)) < _CONSECUTIVE_INCOMPLETE)
    /\ \A i \in DOMAIN ResetTail(w) : ~ ResetTail(w)[i].is_complete

\* _rule_reset_day_protocol up to db.add(task)
_rule_reset_day_protocol(c) ==
    /\ sess[c].pc = "rule2"
    /\ LET s == sess[c]
           w == s.weekly
       IN  sess' = [ sess EXCEPT ![c] =
                      IF ~ ResetTrigger(w)
                      THEN [ s EXCEPT !.pc = "rule3" ]
                      ELSE IF _event_exists(c, RESET_DAY_PROTOCOL, w.reference_date)
                      THEN [ s EXCEPT !.result.events_skipped = Append(@, RESET_DAY_PROTOCOL),
                                      !.pc = "rule3" ]
                      ELSE [ s EXCEPT
                               !.new_tasks = Append(@, [ id     |-> 0,
                                                         title  |-> RESET_TITLE,
                                                         status |-> "pending",
                                                         day    |-> w.reference_date ]),
                               !.pc = "rule2_flush" ] ]
    /\ UNCHANGED <<behavior_events, tasks, event_id_seq, task_id_seq, calls, callers, given, clarity_vars>>

\* the step as it would be with db.commit() in place of db.flush()
reset_commit_and_add(c) ==
    /\ sess[c].pc = "rule2_flush"
    /\ ~ InsertBlocked(c)
    /\ LET s == sess[c]
           w == s.weekly
           f == Flushed(c)
           task_id == task_id_seq + Len(s.new_tasks)
           ev == NewEvent(RESET_DAY_PROTOCOL, w.reference_date,
                    [ consecutive_incomplete_days |-> _CONSECUTIVE_INCOMPLETE,
                      incomplete_days |-> [ i \in DOMAIN ResetTail(w) |->
                                              DateStr(ResetTail(w)[i].day) ],
                      task_id |-> task_id ])
       IN  IF FlushViolates(c)
           THEN /\ sess' = [ sess EXCEPT ![c] =
                              [ RolledBack(s) EXCEPT
                                  !.pc = "raised",
                                  !.lost = { e.event_type : e \in SeqRange(s.new_events) } ] ]
                /\ UNCHANGED <<event_id_seq, task_id_seq, behavior_events, tasks>>
           ELSE /\ sess' = [ sess EXCEPT ![c] =
                              [ RolledBack(f) EXCEPT
                                  !.new_events = <<ev>>,
                                  !.result.events_created = Append(@, RESET_DAY_PROTOCOL),
                                  !.result.task_created = TRUE,
                                  !.pc = "rule3" ] ]
                /\ behavior_events' = behavior_events \cup f.ins_events
                /\ tasks' = tasks \cup f.ins_tasks
                /\ event_id_seq' = event_id_seq + Len(s.new_events)
                /\ task_id_seq' = task_id_seq + Len(s.new_tasks)
    /\ UNCHANGED <<calls, callers, given, clarity_vars>>

\* db.flush() to get task.id, then db.add(BehaviorEvent(...)) with that id.
\* An IntegrityError raised by the flush is not caught: it leaves
\* evaluate_and_react, and the request's session is closed.
reset_flush_and_add(c) ==
    /\ sess[c].pc = "rule2_flush"
    /\ ~ InsertBlocked(c)
    /\ LET s == sess[c]
           w == s.weekly
           f == Flushed(c)
           task_id == task_id_seq + Len(s.new_tasks)
           ev == NewEvent(RESET_DAY_PROTOCOL, w.reference_date,
                    [ consecutive_incomplete_days |-> _CONSECUTIVE_INCOMPLETE,
                      incomplete_days |-> [ i \in DOMAIN ResetTail(w) |->
                                              DateStr(ResetTail(w)[i].day) ],
                      task_id |-> task_id ])
       IN  IF FlushViolates(c)
           THEN /\ sess' = [ sess EXCEPT ![c] =
                              [ RolledBack(s) EXCEPT
                                  !.pc = "raised",
                                  !.lost = { e.event_type : e \in SeqRange(s.new_events) } ] ]
                /\ UNCHANGED <<event_id_seq, task_id_seq>>
           ELSE /\ sess' = [ sess EXCEPT ![c] =
                              [ f EXCEPT
                                  !.new_events = Append(@, ev),
                                  !.result.events_created = Append(@, RESET_DAY_PROTOCOL),
                                  !.result.task_created = TRUE,
                                  !.pc = "rule3" ] ]
                /\ event_id_seq' = event_id_seq + Len(s.new_events)
                /\ task_id_seq' = task_id_seq + Len(s.new_tasks)
    /\ UNCHANGED <<behavior_events, tasks, calls, callers, given, clarity_vars>>

PerfectWeekTrigger_rounded(w) == ~ (w.clarity_score < SCORE_ONE - 1)

PerfectWeekTrigger(w) == ~ (w.clarity_score < SCORE_ONE)

_rule_perfect_week(c) ==
    /\ sess[c].pc = "rule3"
    /\ LET s == sess[c]
           w == s.weekly
           r == _emit(c, s, PERFECT_WEEK, w.reference_date,
                      [ score         |-> w.clarity_score,
                        complete_days |-> w.complete_days,
                        total_days    |-> w.total_days ])
       IN  sess' = [ sess EXCEPT ![c] =
                      IF ~ PerfectWeekTrigger(w)
                      THEN [ s EXCEPT !.pc = "commit" ]
                      ELSE [ Report(r.s, r.inserted, PERFECT_WEEK) EXCEPT !.pc = "commit" ] ]
    /\ UNCHANGED <<behavior_events, tasks, event_id_seq, task_id_seq, calls, callers, given, clarity_vars>>

\* if result.events_created: try db.commit() except IntegrityError: db.rollback()
commit_and_return(c) ==
    /\ sess[c].pc = "commit"
    /\ LET s == sess[c]
           f == Flushed(c)
       IN  IF s.result.events_created = <<>>
           THEN /\ sess' = [ sess EXCEPT ![c] = [ RolledBack(s) EXCEPT !.pc = "returned" ] ]
                /\ UNCHANGED <<behavior_events, tasks, event_id_seq, task_id_seq>>
           ELSE /\ ~ InsertBlocked(c)
                /\ IF FlushViolates(c)
                   THEN /\ sess' = [ sess EXCEPT ![c] =
                                      [ RolledBack(s) EXCEPT
                                          !.pc = "returned",
                                          !.commits = @ + 1,
                                          !.lost = { e.event_type :
                                                       e \in SeqRange(s.new_events) } ] ]
                        /\ UNCHANGED <<behavior_events, tasks, event_id_seq, task_id_seq>>
                   ELSE /\ behavior_events' = insert_events(behavior_events, f.ins_events)
                        /\ tasks' = tasks \cup f.ins_tasks
                        /\ event_id_seq' = event_id_seq + Len(s.new_events)
                        /\ task_id_seq' = task_id_seq + Len(s.new_tasks)
                        /\ sess' = [ sess EXCEPT ![c] =
                                      [ RolledBack(f) EXCEPT
                                          !.pc = "returned",
                                          !.commits = @ + 1 ] ]
    /\ UNCHANGED <<calls, callers, given, clarity_vars>>

\* ------------------------------------------------------ the clarity evaluator
\* _check_day with MIN_EVENTS taken as an exclusive bound
_check_day_exclusive(day) ==
    LET event_count == Cardinality({ e \in entries : e.day = day })
        task_done == Cardinality({ k \in tasks : k.day = day /\ k.status = "done" })
        tx_count == Cardinality({ x \in transactions : x.day = day })
        has_outcome == (task_done > 0) \/ (tx_count > 0)
        has_memory_snapshot ==
            \E n \in narrative_memory : n.date = day /\ n.snapshot_type = "daily"
    IN  [ day                 |-> day,
          is_complete         |-> (event_count > MIN_EVENTS) /\ has_outcome
                                    /\ has_memory_snapshot,
          event_count         |-> event_count,
          has_outcome         |-> has_outcome,
          has_memory_snapshot |-> has_memory_snapshot ]

\* _check_day with MIN_EVENTS taken as the exact number of entries
_check_day_exact(day) ==
    LET event_count == Cardinality({ e \in entries : e.day = day })
        task_done == Cardinality({ k \in tasks : k.day = day /\ k.status = "done" })
        tx_count == Cardinality({ x \in transactions : x.day = day })
        has_outcome == (task_done > 0) \/ (tx_count > 0)
        has_memory_snapshot ==
            \E n \in narrative_memory : n.date = day /\ n.snapshot_type = "daily"
    IN  [ day                 |-> day,
          is_complete         |-> (event_count = MIN_EVENTS) /\ has_outcome
                                    /\ has_memory_snapshot,
          event_count         |-> event_count,
          has_outcome         |-> has_outcome,
          has_memory_snapshot |-> has_memory_snapshot ]

_check_day(day) ==
    LET event_count == Cardinality({ e \in entries : e.day = day })
        task_done == Cardinality({ k \in tasks : k.day = day /\ k.status = "done" })
        tx_count == Cardinality({ x \in transactions : x.day = day })
        has_outcome == (task_done > 0) \/ (tx_count > 0)
        has_memory_snapshot ==
            \E n \in narrative_memory : n.date = day /\ n.snapshot_type = "daily"
    IN  [ day                 |-> day,
          is_complete         |-> (event_count >= MIN_EVENTS) /\ has_outcome
                                    /\ has_memory_snapshot,
          event_count         |-> event_count,
          has_outcome         |-> has_outcome,
          has_memory_snapshot |-> has_memory_snapshot ]

\* the window as it would be listed newest first
calculate_weekly_clarity_newest_first(reference_date) ==
    LET days == [ i \in 1..TOTAL_DAYS |-> reference_date - (i - 1) ]
        daily_results == [ i \in 1..TOTAL_DAYS |-> _check_day(days[i]) ]
        complete == Cardinality({ i \in 1..TOTAL_DAYS : daily_results[i].is_complete })
        total == Len(days)
    IN  [ reference_date |-> reference_date,
          clarity_score  |-> Quantize(complete, total),
          complete_days  |-> complete,
          total_days     |-> total,
          days           |-> daily_results ]

calculate_weekly_clarity(reference_date) ==
    LET days == [ i \in 1..TOTAL_DAYS |-> reference_date - (TOTAL_DAYS - i) ]
        daily_results == [ i \in 1..TOTAL_DAYS |-> _check_day(days[i]) ]
        complete == Cardinality({ i \in 1..TOTAL_DAYS : daily_results[i].is_complete })
        total == Len(days)
    IN  [ reference_date |-> reference_date,
          clarity_score  |-> Quantize(complete, total),
          complete_days  |-> complete,
          total_days     |-> total,
          days           |-> daily_results ]

\* the upsert as it would be if a cached row were never refreshed
upserted_north_star_keep(result) ==
    LET existing == { r \in north_star_snapshots :
                        r.period_type = "weekly"
                            /\ r.reference_date = result.reference_date }
    IN  IF existing # {}
        THEN north_star_snapshots
        ELSE north_star_snapshots \cup
               { [ id             |-> id_seq.north_star_snapshots + 1,
                   period_type    |-> "weekly",
                   reference_date |-> result.reference_date,
                   clarity_score  |-> result.clarity_score,
                   complete_days  |-> result.complete_days,
                   total_days     |-> result.total_days ] }

\* _upsert_snapshot of north_star_service: the rows of north_star_snapshots after it
upserted_north_star(result) ==
    LET existing == { r \in north_star_snapshots :
                        r.period_type = "weekly"
                            /\ r.reference_date = result.reference_date }
    IN  IF existing # {}
        THEN { IF r \in existing
               THEN [ r EXCEPT !.clarity_score = result.clarity_score,
                               !.complete_days = result.complete_days,
                               !.total_days = result.total_days ]
               ELSE r : r \in north_star_snapshots }
        ELSE north_star_snapshots \cup
               { [ id             |-> id_seq.north_star_snapshots + 1,
                   period_type    |-> "weekly",
                   reference_date |-> result.reference_date,
                   clarity_score  |-> result.clarity_score,
                   complete_days  |-> result.complete_days,
                   total_days     |-> result.total_days ] }

\* GET /metrics/north-star: get_north_star, then the response
north_star(reference_date) ==
    LET result == calculate_weekly_clarity(reference_date) IN
    /\ ops < MaxOps
    /\ ops' = ops + 1
    /\ north_star_snapshots' = upserted_north_star(result)
    /\ id_seq' = [ id_seq EXCEPT !.north_star_snapshots =
                     IF Cardinality(north_star_snapshots') > Cardinality(north_star_snapshots)
                     THEN @ + 1 ELSE @ ]
    /\ resp' = [ kind |-> "north_star", weekly |-> result ]
    /\ hist' = [ hist EXCEPT
                   !.evaluated[reference_date] =
                       [ clarity_score |-> result.clarity_score,
                         complete_days |-> result.complete_days,
                         total_days    |-> result.total_days ],
                   !.rewritten = @ \cup
                       { r.reference_date : r \in
                           { x \in north_star_snapshots :
                               /\ x.period_type = "weekly"
                               /\ x.reference_date = reference_date
                               /\ x.clarity_score # result.clarity_score } } ]
    /\ UNCHANGED <<entries, tasks, transactions, narrative_memory, task_id_seq,
                   domain_vars, rules_router, req, reactor_vars>>

\* GET /metrics/north-star/day: calculate_daily_clarity
north_star_day(day) ==
    /\ resp' = [ kind |-> "north_star_day", daily |-> _check_day(day) ]
    /\ UNCHANGED <<entries, tasks, transactions, narrative_memory, north_star_snapshots,
                   id_seq, task_id_seq, ops, domain_vars, rules_router, hist, req,
                   reactor_vars>>

\* ------------------------------------------------------------- the router
\* A text is a sequence of words.  A pattern is the regular expression of a
\* rule, by what re.search(pattern, raw, re.IGNORECASE) does with it:
\*   prefix   ^(w1|w2|..)   the text starts with one of the words
\*   contains (w1|w2|..)    one of the words occurs in the text
\*   any      .*            matches every text, the empty one included
\*   invalid  [unclosed     re.error when the pattern is compiled
Lower(word) ==
    CASE word = "TODO" -> "todo"
      [] word = "PAID" -> "paid"
      [] OTHER -> word

PatternPrefix(words) == [ kind |-> "prefix", words |-> words ]
PatternContains(words) == [ kind |-> "contains", words |-> words ]
PatternAny == [ kind |-> "any", words |-> {} ]
PatternInvalid == [ kind |-> "invalid", words |-> {} ]

\* re.search(pattern, raw, re.IGNORECASE): "error", "match" or "none"
re_search(pattern, raw) ==
    CASE pattern.kind = "invalid" -> "error"
      [] pattern.kind = "any" -> "match"
      [] pattern.kind = "prefix" ->
            IF Len(raw) > 0 /\ Lower(raw[1]) \in { Lower(w) : w \in pattern.words }
            THEN "match" ELSE "none"
      [] pattern.kind = "contains" ->
            IF \E i \in DOMAIN raw : Lower(raw[i]) \in { Lower(w) : w \in pattern.words }
            THEN "match" ELSE "none"

Rule(name, pattern, target, entry_type, priority, is_active) ==
    [ name |-> name, pattern |-> pattern, target |-> target, entry_type |-> entry_type,
      priority |-> priority, is_active |-> is_active ]

\* the rules the migration seeds, in insertion order
DEFAULT_RULES ==
    << Rule("task_prefix", PatternPrefix({"TODO", "TASK", "tarea", "hacer"}),
            "tasks", "task", 100, TRUE),
       Rule("income_keyword", PatternContains({"ingreso", "income", "cobr"}),
            "transactions", "transaction", 90, TRUE),
       Rule("expense_keyword", PatternContains({"gast", "paid", "expense"}),
            "transactions", "transaction", 80, TRUE),
       Rule("fact_keyword", PatternPrefix({"FACT:", "DATO:", "nota:", "note:"}),
            "facts", "fact", 70, TRUE),
       Rule("metric_keyword", PatternPrefix({"METRIC:", "METRICA:", "KPI:"}),
            "metrics_daily", "metric", 60, TRUE),
       Rule("project_keyword", PatternPrefix({"PROJECT:", "PROYECTO:"}),
            "projects", "project", 50, TRUE),
       Rule("default_note", PatternAny, "facts", "note", 0, TRUE) >>

RoutingResult(entry_type, target, rule_name) ==
    [ entry_type |-> entry_type, target |-> target, rule_name |-> rule_name ]

\* rule_name=None
NoRuleName == "<None>"

\* the absolute fallback of both routing functions
Fallback == RoutingResult("note", "facts", NoRuleName)

\* the loop of route_entry with a bad pattern ending the evaluation
RECURSIVE route_entry_loop_stop_on_error(_, _)
route_entry_loop_stop_on_error(rules, raw) ==
    IF rules = <<>> THEN Fallback
    ELSE LET rule == Head(rules)
             found == re_search(rule.pattern, raw)
         IN  CASE found = "match" -> RoutingResult(rule.entry_type, rule.target, rule.name)
               [] found = "error" -> Fallback
               [] OTHER -> route_entry_loop_stop_on_error(Tail(rules), raw)

\* route_entry, the loop over the rows of the query: the first rule whose
\* pattern is found in raw; a pattern that raises re.error is skipped
RECURSIVE route_entry_loop(_, _)
route_entry_loop(rules, raw) ==
    IF rules = <<>> THEN Fallback
    ELSE LET rule == Head(rules)
             found == re_search(rule.pattern, raw)
         IN  CASE found = "match" -> RoutingResult(rule.entry_type, rule.target, rule.name)
               [] found = "error" -> route_entry_loop(Tail(rules), raw)
               [] OTHER -> route_entry_loop(Tail(rules), raw)

\* the loop of route_entry_from_rules without the is_active test
RECURSIVE route_entry_from_rules_loop_all(_, _)
route_entry_from_rules_loop_all(rules, raw) ==
    IF rules = <<>> THEN Fallback
    ELSE LET rule == Head(rules)
             found == re_search(rule.pattern, raw)
         IN  CASE found = "match" -> RoutingResult(rule.entry_type, rule.target, rule.name)
               [] OTHER -> route_entry_from_rules_loop_all(Tail(rules), raw)

\* route_entry_from_rules, the loop over the sorted list: an inactive rule is
\* skipped, then as route_entry
RECURSIVE route_entry_from_rules_loop(_, _)
route_entry_from_rules_loop(rules, raw) ==
    IF rules = <<>> THEN Fallback
    ELSE LET rule == Head(rules)
             found == re_search(rule.pattern, raw)
         IN  CASE ~rule.is_active -> route_entry_from_rules_loop(Tail(rules), raw)
               [] found = "match" -> RoutingResult(rule.entry_type, rule.target, rule.name)
               [] found = "error" -> route_entry_from_rules_loop(Tail(rules), raw)
               [] OTHER -> route_entry_from_rules_loop(Tail(rules), raw)

\* sorted(rules, key=lambda r: r.priority, reverse=True): a stable sort, rules
\* of equal priority keep the order of the list
RECURSIVE sorted_by_priority_reverse(_)
sorted_by_priority_reverse(rules) ==
    IF rules = <<>> THEN <<>>
    ELSE LET i == CHOOSE k \in DOMAIN rules :
                    /\ \A j \in DOMAIN rules : rules[k].priority >= rules[j].priority
                    /\ \A j \in 1..(k - 1) : rules[j].priority < rules[k].priority
         IN  <<rules[i]>> \o
             sorted_by_priority_reverse(
                 [ j \in 1..(Len(rules) - 1) |-> IF j < i THEN rules[j] ELSE rules[j + 1] ])

\* .order_by(RuleRouter.priority.desc()).all(): the rows in an order the
\* database chooses among those with the priorities descending; the order of
\* rows of equal priority is not determined by the query
order_by_priority_desc(rows) ==
    LET n == Len(rows)
        orders == { s \in [ 1..n -> 1..n ] :
                      /\ \A i, j \in 1..n : i # j => s[i] # s[j]
                      /\ \A i, j \in 1..n :
                           i < j => rows[s[i]].priority >= rows[s[j]].priority }
    IN  { [ i \in 1..n |-> rows[s[i]] ] : s \in orders }

\* .filter(RuleRouter.is_active == True), the rows in primary-key order
filter_is_active(rows) == SelectSeq(rows, LAMBDA r : r.is_active)

\* route_entry(raw, db)
route_entry(raw) ==
    /\ \E rules \in order_by_priority_desc(filter_is_active(rules_router)) :
         resp' = [ kind |-> "route_entry", raw |-> raw,
                   result |-> route_entry_loop(rules, raw) ]
    /\ UNCHANGED <<entries, tasks, transactions, narrative_memory, north_star_snapshots,
                   id_seq, task_id_seq, ops, domain_vars, rules_router, hist, req,
                   reactor_vars>>

\* route_entry_from_rules(raw, rules) with the stored rules as the list
route_entry_from_rules(raw) ==
    /\ resp' = [ kind |-> "route_entry_from_rules", raw |-> raw,
                 result |-> route_entry_from_rules_loop(
                                sorted_by_priority_reverse(rules_router), raw) ]
    /\ UNCHANGED <<entries, tasks, transactions, narrative_memory, north_star_snapshots,
                   id_seq, task_id_seq, ops, domain_vars, rules_router, hist, req,
                   reactor_vars>>

\* ---------------------------------------------------- ingestion and compiling
Targets == { "tasks", "transactions", "facts" }

\* targets a rule can name: the five domain tables, and two names that are
\* no domain table
AllTargets == Targets \cup { "metrics_daily", "projects", "metrics", "archive" }

\* the text the model ingests for a target, after the texts of the tests
RawOf(target) ==
    CASE target = "tasks" -> << "TODO:", "x" >>
      [] target = "transactions" -> << "gasto", "$5", "y" >>
      [] target = "facts" -> << "FACT:", "z" >>
      [] target = "metrics_daily" -> << "METRIC:", "steps", "=", "8500", "count" >>
      [] target = "projects" -> << "PROJECT:", "p" >>
      [] OTHER -> << "KPI:", "steps", "=", "8500", "count" >>

\* the entry_type of the rule that routes to the target
EntryTypeOf(target) ==
    CASE target = "tasks" -> "task"
      [] target = "transactions" -> "transaction"
      [] target = "facts" -> "fact"
      [] target = "projects" -> "project"
      [] OTHER -> "metric"

\* UniqueConstraint("name", "day") of metrics_daily
uq_metric_name_day(rows, new) ==
    \E r \in rows : r.name = new.name /\ r.day = new.day

NoEntity == [ table |-> "none" ]

\* unit=None
NoUnit == "<None>"

\* the digits [\d,\.]+ that a word begins with after an optional currency
\* sign, commas removed; "" when it has none
DigitsOf(word) ==
    CASE word = "$5" -> "5"
      [] word \in { "5", "8500", "1.2.3" } -> word
      [] OTHER -> ""

\* Decimal(text): the number, or InvalidOperation
Decimal(text) ==
    CASE text = "5" -> [ ok |-> TRUE, value |-> 5 ]
      [] text = "8500" -> [ ok |-> TRUE, value |-> 8500 ]
      [] OTHER -> [ ok |-> FALSE, value |-> 0 ]

\* _extract_amount(raw) or Decimal("0.00"): the first run of digits of the
\* text as a number; 0 when there is none or it is no number
_extract_amount(raw) ==
    LET at == { k \in DOMAIN raw : DigitsOf(raw[k]) # "" } IN
    IF at = {} THEN 0
    ELSE LET first == CHOOSE k \in at : \A m \in at : k <= m
         IN  Decimal(DigitsOf(raw[first])).value

\* _detect_tx_type
_detect_tx_type(raw) ==
    CASE \E k \in DOMAIN raw : raw[k] \in { "ingreso", "income", "cobr" } -> "income"
      [] \E k \in DOMAIN raw : raw[k] \in { "transfer" } -> "transfer"
      [] OTHER -> "expense"

\* the metric of a text, (?:METRIC|METRICA|KPI)\s*:\s*name\s*=\s*value\s*unit?:
\* ("unknown", 0, None) when the text has not that form, value 0 when the
\* digits are no number
MetricOf(raw) ==
    IF /\ Len(raw) >= 4
       /\ raw[1] \in { "METRIC:", "METRICA:", "KPI:" }
       /\ raw[3] = "="
       /\ DigitsOf(raw[4]) = raw[4] /\ raw[4] # ""
    THEN [ name |-> raw[2],
           value |-> Decimal(raw[4]).value,
           unit |-> IF Len(raw) >= 5 THEN raw[5] ELSE NoUnit ]
    ELSE [ name |-> "unknown", value |-> 0, unit |-> NoUnit ]

\* the session's view of the tables and their sequences
Store ==
    [ entries |-> entries, tasks |-> tasks, transactions |-> transactions,
      facts |-> facts, metrics_daily |-> metrics_daily, projects |-> projects,
      id_seq |-> id_seq, task_id_seq |-> task_id_seq ]

\* _fan_out with no branch for the target projects
_fan_out_no_projects(db, raw, target, entry_id, day) ==
    CASE target = "tasks" ->
            [ table |-> "tasks", id |-> db.task_id_seq + 1, title |-> "ingested",
              status |-> "pending", day |-> day ]
      [] target = "transactions" ->
            [ table |-> "transactions", id |-> db.id_seq.transactions + 1, day |-> day,
              amount |-> _extract_amount(raw), tx_type |-> _detect_tx_type(raw) ]
      [] target = "facts" ->
            [ table |-> "facts", id |-> db.id_seq.facts + 1, entry_id |-> entry_id,
              content |-> raw, day |-> day ]
      [] target = "metrics_daily" ->
            [ table |-> "metrics_daily", id |-> db.id_seq.metrics_daily + 1,
              entry_id |-> entry_id, name |-> MetricOf(raw).name,
              value |-> MetricOf(raw).value, unit |-> MetricOf(raw).unit, day |-> day ]
      [] OTHER -> NoEntity

\* _fan_out: the domain record of an entry routed to `target`, or NoEntity
_fan_out(db, raw, target, entry_id, day) ==
    CASE target = "tasks" ->
            [ table |-> "tasks", id |-> db.task_id_seq + 1, title |-> "ingested",
              status |-> "pending", day |-> day ]
      [] target = "transactions" ->
            [ table |-> "transactions", id |-> db.id_seq.transactions + 1, day |-> day,
              amount |-> _extract_amount(raw), tx_type |-> _detect_tx_type(raw) ]
      [] target = "facts" ->
            [ table |-> "facts", id |-> db.id_seq.facts + 1, entry_id |-> entry_id,
              content |-> raw, day |-> day ]
      [] target = "metrics_daily" ->
            [ table |-> "metrics_daily", id |-> db.id_seq.metrics_daily + 1,
              entry_id |-> entry_id, name |-> MetricOf(raw).name,
              value |-> MetricOf(raw).value, unit |-> MetricOf(raw).unit, day |-> day ]
      [] target = "projects" ->
            [ table |-> "projects", id |-> db.id_seq.projects + 1, name |-> "p",
              status |-> "active" ]
      [] OTHER -> NoEntity

\* a stored row: the record without the name of its table
Row(obj) == [ f \in (DOMAIN obj) \ {"table"} |-> obj[f] ]

RowsIf(obj, table) == IF obj.table = table THEN { Row(obj) } ELSE {}

\* an insert that replaces the day's entries
add_entry_replacing(rows, entry) == { e \in rows : e.day # entry.day } \cup { entry }

\* db.add(entry); db.flush(): the Entry is inserted
add_entry(rows, entry) == rows \cup { entry }

\* _ingest_one for a text the router sends to `target`: the Entry is flushed,
\* then its domain record.  A metric whose (name, day) is already in the
\* session's view makes the second flush raise IntegrityError; the Entry is
\* then flushed and not committed.  Gives the session's view after it.
_ingest_one(db, raw, target, day) ==
    LET entry == [ id |-> db.id_seq.entries + 1, day |-> day, routed_to |-> target ]
        flushed == [ db EXCEPT !.entries = add_entry(@, entry), !.id_seq.entries = @ + 1 ]
        obj == _fan_out(flushed, raw, target, entry.id, day)
    IN
    IF obj.table = "metrics_daily" /\ uq_metric_name_day(flushed.metrics_daily, obj)
    THEN [ ok |-> FALSE, entry |-> entry, domain_entity |-> obj,
           db |-> [ flushed EXCEPT !.id_seq.metrics_daily = @ + 1 ] ]
    ELSE [ ok |-> TRUE, entry |-> entry, domain_entity |-> obj,
           db |-> [ flushed EXCEPT
                      !.tasks = @ \cup RowsIf(obj, "tasks"),
                      !.task_id_seq = IF obj.table = "tasks" THEN @ + 1 ELSE @,
                      !.transactions = @ \cup RowsIf(obj, "transactions"),
                      !.facts = @ \cup RowsIf(obj, "facts"),
                      !.metrics_daily = @ \cup RowsIf(obj, "metrics_daily"),
                      !.projects = @ \cup RowsIf(obj, "projects"),
                      !.id_seq.transactions = IF obj.table = "transactions" THEN @ + 1 ELSE @,
                      !.id_seq.facts = IF obj.table = "facts" THEN @ + 1 ELSE @,
                      !.id_seq.metrics_daily = IF obj.table = "metrics_daily" THEN @ + 1 ELSE @,
                      !.id_seq.projects = IF obj.table = "projects" THEN @ + 1 ELSE @ ] ]

\* a rollback that leaves the rows the transaction flushed
rolled_back_keeps_rows(db, before) == db

\* the session after the transaction that began at `before` is rolled back:
\* its rows are gone, the values it drew from the sequences are spent
rolled_back(db, before) ==
    [ before EXCEPT !.id_seq = db.id_seq, !.task_id_seq = db.task_id_seq ]

\* db.commit(): the session's view becomes the committed store
commit(db) ==
    /\ entries' = db.entries
    /\ tasks' = db.tasks
    /\ transactions' = db.transactions
    /\ facts' = db.facts
    /\ metrics_daily' = db.metrics_daily
    /\ projects' = db.projects
    /\ id_seq' = db.id_seq
    /\ task_id_seq' = db.task_id_seq

\* POST /ingest, ingest_raw: _ingest_one and commit.  When _ingest_one raises
\* nothing is committed and the request fails with EntryIngestionError.
ingest_raw(raw, target, day) ==
    LET ir == _ingest_one(Store, raw, target, day) IN
    /\ ops < MaxOps
    /\ ops' = ops + 1
    /\ IF ir.ok
       THEN /\ commit(ir.db)
            /\ resp' = [ kind |-> "ingest", entry |-> ir.entry,
                         domain_entity |-> ir.domain_entity ]
       ELSE /\ commit(rolled_back(ir.db, Store))
            /\ resp' = [ kind |-> "ingest_failed", target |-> target, entry |-> ir.entry,
                         domain_entity |-> ir.domain_entity ]
    /\ UNCHANGED <<narrative_memory, north_star_snapshots, rules_router, hist, req,
                   daily_logs, memory_snapshots, reactor_vars>>

\* error=None of a batch result
NoError == "<None>"

BatchItem(raw, target, day) == [ raw |-> raw, target |-> target, day |-> day ]

\* the loop of ingest_batch with a failing item rolling back the items before it
RECURSIVE ingest_batch_loop_rollback_all(_, _)
ingest_batch_loop_rollback_all(db, items) ==
    IF items = <<>> THEN [ db |-> db, raw_results |-> <<>> ]
    ELSE LET n == Len(items)
             before == ingest_batch_loop_rollback_all(db, SubSeq(items, 1, n - 1))
             ir == _ingest_one(before.db, items[n].raw, items[n].target, items[n].day)
         IN  IF ir.ok
             THEN [ db |-> ir.db,
                    raw_results |-> Append(before.raw_results,
                        [ index |-> n - 1, ok |-> TRUE, entry |-> ir.entry,
                          domain_entity |-> ir.domain_entity, error |-> NoError ]) ]
             ELSE [ db |-> rolled_back(ir.db, db),
                    raw_results |-> Append(before.raw_results,
                        [ index |-> n - 1, ok |-> FALSE, entry |-> ir.entry,
                          domain_entity |-> ir.domain_entity, error |-> "IntegrityError" ]) ]

\* the loop of ingest_batch: each item runs _ingest_one inside a savepoint,
\* which is released when it returns and rolled back when it raises.  Gives
\* the session's view after the last item and the results in input order; the
\* result of a failed item carries the Entry that was rolled back.
RECURSIVE ingest_batch_loop(_, _)
ingest_batch_loop(db, items) ==
    IF items = <<>> THEN [ db |-> db, raw_results |-> <<>> ]
    ELSE LET n == Len(items)
             before == ingest_batch_loop(db, SubSeq(items, 1, n - 1))
             ir == _ingest_one(before.db, items[n].raw, items[n].target, items[n].day)
         IN  IF ir.ok
             THEN [ db |-> ir.db,
                    raw_results |-> Append(before.raw_results,
                        [ index |-> n - 1, ok |-> TRUE, entry |-> ir.entry,
                          domain_entity |-> ir.domain_entity, error |-> NoError ]) ]
             ELSE [ db |-> rolled_back(ir.db, before.db),
                    raw_results |-> Append(before.raw_results,
                        [ index |-> n - 1, ok |-> FALSE, entry |-> ir.entry,
                          domain_entity |-> ir.domain_entity, error |-> "IntegrityError" ]) ]

\* POST /ingest/batch, ingest_batch: the loop, then one commit
ingest_batch(items) ==
    LET done == ingest_batch_loop(Store, items) IN
    /\ ops < MaxOps
    /\ ops' = ops + 1
    /\ commit(done.db)
    /\ resp' = [ kind |-> "ingest_batch", items |-> items, raw_results |-> done.raw_results ]
    /\ UNCHANGED <<narrative_memory, north_star_snapshots, rules_router, hist, req,
                   daily_logs, memory_snapshots, reactor_vars>>

\* ------------------------------------------------------------- closing a day
\* the frame of the close-day steps
close_frame ==
    <<entries, tasks, transactions, facts, metrics_daily, projects, narrative_memory,
      north_star_snapshots, id_seq, task_id_seq, rules_router, hist, ops, resp, reactor_vars>>

LogsOf(day) == { l \in daily_logs : l.day = day }

\* the four counts close_day takes of the day
TotalsOf(day) ==
    [ total_entries |-> Cardinality({ e \in entries : e.day = day }),
      total_tasks |-> Cardinality({ k \in tasks : k.day = day }),
      total_transactions |-> Cardinality({ x \in transactions : x.day = day }),
      total_facts |-> Cardinality({ f \in facts : f.day = day }) ]

\* the row close_day writes: is_closed = True, the counts, closed_at = now
DailyLog(day, totals, now) ==
    [ day |-> day, is_closed |-> TRUE, closed_at |-> now,
      total_entries |-> totals.total_entries, total_tasks |-> totals.total_tasks,
      total_transactions |-> totals.total_transactions,
      total_facts |-> totals.total_facts ]

\* POST /state/close-day, the check of the endpoint: DayAlreadyClosedError
\* (409) when the day has a closed log, else close_day is called
state_close_day(c, day) ==
    /\ req[c].pc \in { "idle", "returned", "raised", "rejected" }
    /\ req' = [ req EXCEPT ![c] =
                  [ IdleRequest EXCEPT
                      !.op = "close_day", !.date = day,
                      !.pc = IF \E l \in LogsOf(day) : l.is_closed
                             THEN "rejected" ELSE "closing" ] ]
    /\ UNCHANGED <<close_frame, daily_logs, memory_snapshots>>

\* close_day, the counts and the lookup of the day's log
close_day_lookup(c) ==
    LET q == req[c] IN
    /\ q.pc = "closing"
    /\ req' = [ req EXCEPT ![c] =
                  [ q EXCEPT !.pc = "close_write",
                             !.value = TotalsOf(q.date),
                             !.existing = IF LogsOf(q.date) = {} THEN 0 ELSE 1 ] ]
    /\ UNCHANGED <<close_frame, daily_logs, memory_snapshots>>

\* close_day, db.commit(): the log found is updated, or a new one inserted,
\* and a MemorySnapshot is inserted with it.  The INSERT of a log for a day
\* that has got one since the lookup violates the unique day: IntegrityError,
\* which nothing catches.
close_day(c) ==
    LET q == req[c]
        now == Cardinality(memory_snapshots) + 1
        log == DailyLog(q.date, q.value, now)
    IN
    /\ q.pc = "close_write"
    /\ IF q.existing = 0 /\ LogsOf(q.date) # {}
       THEN /\ req' = [ req EXCEPT ![c] = [ q EXCEPT !.pc = "raised" ] ]
            /\ UNCHANGED <<daily_logs, memory_snapshots>>
       ELSE /\ daily_logs' = (daily_logs \ LogsOf(q.date)) \cup { log }
            /\ memory_snapshots' = memory_snapshots \cup
                 { [ id |-> now, day |-> q.date, snapshot_type |-> "daily_close",
                     content |-> q.value ] }
            /\ req' = [ req EXCEPT ![c] = [ q EXCEPT !.pc = "returned", !.id = now ] ]
    /\ UNCHANGED close_frame

\* ------------------------------------------------------ the narrative compiler
\* the rows of a query result, in primary-key order
RECURSIVE ById(_)
ById(rows) ==
    IF rows = {} THEN <<>>
    ELSE LET r == CHOOSE x \in rows : \A y \in rows : x.id <= y.id
         IN  <<r>> \o ById(rows \ {r})

\* sorted(transactions, key=lambda t: abs(t.amount), reverse=True)
RECURSIVE ByAmountDesc(_)
ByAmountDesc(rows) ==
    IF rows = {} THEN <<>>
    ELSE LET abs(n) == IF n < 0 THEN 0 - n ELSE n
             r == CHOOSE x \in rows : \A y \in rows :
                      \/ abs(x.amount) > abs(y.amount)
                      \/ abs(x.amount) = abs(y.amount) /\ x.id <= y.id
         IN  <<r>> \o ByAmountDesc(rows \ {r})

\* seq[:n]
Take(seq, n) == IF Len(seq) <= n THEN seq ELSE SubSeq(seq, 1, n)

\* list(dict.fromkeys(seq))
RECURSIVE Dedupe(_)
Dedupe(seq) ==
    IF seq = <<>> THEN <<>>
    ELSE LET rest == Dedupe(SubSeq(seq, 1, Len(seq) - 1))
             last == seq[Len(seq)]
         IN  IF last \in SeqRange(rest) THEN rest ELSE Append(rest, last)

\* the concatenation of the lists seqs[1], seqs[2], ...
RECURSIVE Flatten(_)
Flatten(seqs) ==
    IF seqs = <<>> THEN <<>>
    ELSE Flatten(SubSeq(seqs, 1, Len(seqs) - 1)) \o seqs[Len(seqs)]

RECURSIVE SumAmounts(_)
SumAmounts(rows) ==
    IF rows = {} THEN 0
    ELSE LET r == CHOOSE x \in rows : TRUE IN r.amount + SumAmounts(rows \ {r})

\* sep.join(labels): a text of label tokens with the separator between them
RECURSIVE join(_, _)
join(sep, labels) ==
    IF Len(labels) <= 1 THEN labels
    ELSE << labels[1], sep >> \o join(sep, Tail(labels))

\* text.split(sep) of a text of tokens none of which contains the separator
split(text, sep) == SelectSeq(text, LAMBDA x : x # sep)

\* _infer_emotional_state with the test for a day without entries left out
_infer_emotional_state_no_quiet(tasks_done, tasks_total, net_cashflow, total_entries, facts_count) ==
    LET productivity ==
            IF tasks_total > 0
            THEN (IF 10 * tasks_done >= 7 * tasks_total THEN << "productive" >>
                  ELSE IF 10 * tasks_done >= 3 * tasks_total THEN << "progressing" >>
                  ELSE << "backlogged" >>)
            ELSE <<>>
        cashflow ==
            IF net_cashflow > 0 THEN << "financially_positive" >>
            ELSE IF net_cashflow < 0 THEN << "financially_cautious" >>
            ELSE <<>>
        knowledge == IF facts_count >= 3 THEN << "knowledge_rich" >> ELSE <<>>
        volume == IF total_entries >= 15 THEN << "data_rich" >> ELSE <<>>
        labels == productivity \o cashflow \o knowledge \o volume
    IN  IF labels # <<>> THEN join("+", labels) ELSE << "neutral" >>

\* the label text of a day: the labels joined with "+"
_infer_emotional_state(tasks_done, tasks_total, net_cashflow, total_entries, facts_count) ==
    IF total_entries = 0 THEN << "quiet" >>
    ELSE LET productivity ==
                 IF tasks_total > 0
                 THEN (IF 10 * tasks_done >= 7 * tasks_total THEN << "productive" >>
                       ELSE IF 10 * tasks_done >= 3 * tasks_total THEN << "progressing" >>
                       ELSE << "backlogged" >>)
                 ELSE <<>>
             cashflow ==
                 IF net_cashflow > 0 THEN << "financially_positive" >>
                 ELSE IF net_cashflow < 0 THEN << "financially_cautious" >>
                 ELSE <<>>
             knowledge == IF facts_count >= 3 THEN << "knowledge_rich" >> ELSE <<>>
             volume == IF total_entries >= 15 THEN << "data_rich" >> ELSE <<>>
             labels == productivity \o cashflow \o knowledge \o volume
         IN  IF labels # <<>> THEN join("+", labels) ELSE << "neutral" >>

_extract_key_events(ts, xs, project_entries, ms) ==
    LET done == Take(ById({ k \in ts : k.status = "done" }), 3)
        proj == Take(ById(project_entries), 2)
        txs == Take(ByAmountDesc(xs), 3)
        mets == Take(ById(ms), 2)
        events ==
            [ i \in DOMAIN done |-> << "Task completed", done[i].title >> ] \o
            [ i \in DOMAIN proj |-> << "Project created", "p" >> ] \o
            [ i \in DOMAIN txs |-> << "Transaction", txs[i].tx_type, "USD", txs[i].amount >> ] \o
            [ i \in DOMAIN mets |-> << "Metric", mets[i].name, mets[i].value, mets[i].unit >> ]
    IN  Take(events, 10)

\* facts and fact entries that begin with a lesson marker ("FACT: z" does)
_extract_lessons(fs, es) ==
    LET from_facts == [ i \in DOMAIN ById(fs) |-> ById(fs)[i].content ]
        fact_entries == ById({ e \in es : EntryTypeOf(e.routed_to) = "fact" })
        from_entries == [ i \in DOMAIN fact_entries |-> RawOf(fact_entries[i].routed_to) ]
    IN  Take(Dedupe(from_facts \o from_entries), 10)

\* _build_day_fields over the rows loaded for the day.  The texts of the
\* model hold no decision keyword: decisions_made is the empty list throughout
\* and is left out.
_build_day_fields(day, es, ts, xs, fs, ms) ==
    LET total_entries == Cardinality(es)
        tasks_done == Cardinality({ k \in ts : k.status = "done" })
        tasks_total == Cardinality(ts)
        income == SumAmounts({ x \in xs : x.tx_type = "income" })
        expense == SumAmounts({ x \in xs : x.tx_type = "expense" })
        net == income - expense
        project_entries == { e \in es : e.routed_to = "projects" }
        parts ==
            << << "Day", day >> >> \o
            (IF total_entries = 0 THEN << << "No entries recorded." >> >>
             ELSE << << "entries captured.", total_entries >> >>) \o
            (IF tasks_total > 0 THEN << << "Tasks", tasks_done, tasks_total >> >> ELSE <<>>) \o
            (IF xs # {} THEN << << "Net cashflow", net >> >> ELSE <<>>) \o
            (IF ms # {} THEN << << "metric(s) tracked.", Cardinality(ms) >> >> ELSE <<>>) \o
            (IF project_entries # {}
             THEN << << "Projects", Cardinality(project_entries) >> >> ELSE <<>>)
        tags ==
            { EntryTypeOf(e.routed_to) : e \in es } \cup
            (IF income > 0 THEN { "income" } ELSE {}) \cup
            (IF expense > 0 THEN { "expense" } ELSE {}) \cup
            (IF project_entries # {} THEN { "projects" } ELSE {}) \cup
            (IF ms # {} THEN { "metrics" } ELSE {})
    IN  [ summary         |-> parts,
          key_events      |-> _extract_key_events(ts, xs, project_entries, ms),
          emotional_state |-> _infer_emotional_state(tasks_done, tasks_total, net,
                                                     total_entries, Cardinality(fs)),
          lessons         |-> _extract_lessons(fs, es),
          tags            |-> tags ]

\* the five queries of compile_day_memory, then _build_day_fields
DayFields(day) ==
    _build_day_fields(day,
                      { e \in entries : e.day = day },
                      { k \in tasks : k.day = day },
                      { x \in transactions : x.day = day },
                      { f \in facts : f.day = day },
                      { m \in metrics_daily : m.day = day })

\* the upsert as it would be if an existing snapshot were kept as it is
upserted_narrative_keep(rows, last_id, target_date, snapshot_type, fields) ==
    LET existing == { r \in rows : r.date = target_date /\ r.snapshot_type = snapshot_type }
    IN  IF existing # {}
        THEN [ rows |-> rows, id |-> (CHOOSE r \in existing : TRUE).id, inserted |-> FALSE ]
        ELSE [ rows     |-> rows \cup { [ id |-> last_id + 1, date |-> target_date,
                                          snapshot_type |-> snapshot_type,
                                          fields |-> fields ] },
               id       |-> last_id + 1,
               inserted |-> TRUE ]

\* _upsert_snapshot of memory.py on the rows `rows`: the rows after it, the
\* identifier of the snapshot it returns, and whether it inserted
upserted_narrative(rows, last_id, target_date, snapshot_type, fields) ==
    LET existing == { r \in rows : r.date = target_date /\ r.snapshot_type = snapshot_type }
    IN  IF existing # {}
        THEN [ rows     |-> { IF r \in existing THEN [ r EXCEPT !.fields = fields ] ELSE r :
                              r \in rows },
               id       |-> (CHOOSE r \in existing : TRUE).id,
               inserted |-> FALSE ]
        ELSE [ rows     |-> rows \cup { [ id |-> last_id + 1, date |-> target_date,
                                          snapshot_type |-> snapshot_type,
                                          fields |-> fields ] },
               id       |-> last_id + 1,
               inserted |-> TRUE ]

\* POST /memory/compile-day: compile_day_memory
compile_day_memory(day) ==
    LET fields == DayFields(day)
        u == upserted_narrative(narrative_memory, id_seq.narrative_memory, day, "daily", fields)
    IN
    /\ ops < MaxOps
    /\ ops' = ops + 1
    /\ narrative_memory' = u.rows
    /\ id_seq' = [ id_seq EXCEPT !.narrative_memory = IF u.inserted THEN @ + 1 ELSE @ ]
    /\ resp' = [ kind |-> "compile_day", date |-> day, id |-> u.id,
                 existing |-> ~ u.inserted ]
    /\ hist' = [ hist EXCEPT !.compiled = @ \cup { << day, "daily", u.id >> } ]
    /\ UNCHANGED <<entries, tasks, transactions, north_star_snapshots, task_id_seq,
                   domain_vars, rules_router, req, reactor_vars>>

\* the days of a weekly compile
WEEK_DAYS == 7

CountOf(seq, x) == Cardinality({ i \in DOMAIN seq : seq[i] = x })

\* [label for label, _ in Counter(labels).most_common(2)]: by count, ties in
\* first-seen order
MostCommon2(labels) ==
    LET d == Dedupe(labels)
        before(i) == Cardinality({ j \in DOMAIN d :
                        \/ CountOf(labels, d[j]) > CountOf(labels, d[i])
                        \/ CountOf(labels, d[j]) = CountOf(labels, d[i]) /\ j < i })
    IN  [ k \in 1..(IF Len(d) < 2 THEN Len(d) ELSE 2) |->
            d[CHOOSE i \in DOMAIN d : before(i) = k - 1] ]

\* the aggregation of compile_week_memory over the 7 daily snapshots
BuildWeekFields(week_start, daily_snapshots) ==
    LET all_key_events == Flatten([ i \in DOMAIN daily_snapshots |->
                                      daily_snapshots[i].fields.key_events ])
        all_lessons == Flatten([ i \in DOMAIN daily_snapshots |->
                                   daily_snapshots[i].fields.lessons ])
        all_state_labels == Flatten([ i \in DOMAIN daily_snapshots |->
                                        split(daily_snapshots[i].fields.emotional_state, "+") ])
        active_days == Cardinality({ i \in DOMAIN daily_snapshots :
                          << "No entries recorded." >>
                              \notin SeqRange(daily_snapshots[i].fields.summary) })
        key_events == Take(Dedupe(all_key_events), 15)
        lessons == Take(Dedupe(all_lessons), 10)
        weekly_state == IF all_state_labels # <<>>
                        THEN join("+", MostCommon2(all_state_labels))
                        ELSE << "neutral" >>
        parts ==
            << << "Week", week_start, week_start + 6 >>,
               << "active days", active_days, 7 >> >> \o
            (IF key_events # <<>> THEN << << "notable event(s)", Len(key_events) >> >>
             ELSE <<>>) \o
            (IF lessons # <<>> THEN << << "lesson(s) captured.", Len(lessons) >> >>
             ELSE <<>>) \o
            << << "Dominant state", weekly_state >> >>
    IN  [ summary         |-> parts,
          key_events      |-> key_events,
          emotional_state |-> weekly_state,
          lessons         |-> lessons,
          tags            |-> UNION { daily_snapshots[i].fields.tags :
                                      i \in DOMAIN daily_snapshots } ]

DailyOf(rows, d) == { r \in rows : r.date = d /\ r.snapshot_type = "daily" }

\* days = [week_start + timedelta(days=i) for i in range(7)]
WeekDaysOf(week_start) == [ i \in 1..WEEK_DAYS |-> week_start + (i - 1) ]

\* compile_week_memory as it would be if it called compile_day_memory for
\* every day of the week
compiled_week_all_days(rows, last_id, week_start) ==
    LET days == WeekDaysOf(week_start)
        missing == { d \in SeqRange(days) : DailyOf(rows, d) = {} }
        rank(d) == Cardinality({ m \in missing : m <= d })
        healed == { IF r.snapshot_type = "daily" /\ r.date \in SeqRange(days)
                    THEN [ r EXCEPT !.fields = DayFields(r.date) ] ELSE r : r \in rows } \cup
                    { [ id |-> last_id + rank(d), date |-> d,
                        snapshot_type |-> "daily", fields |-> DayFields(d) ] : d \in missing }
        daily_snapshots == [ i \in DOMAIN days |-> CHOOSE r \in DailyOf(healed, days[i]) : TRUE ]
        fields == BuildWeekFields(week_start, daily_snapshots)
        u == upserted_narrative(healed, last_id + Cardinality(missing),
                                week_start, "weekly", fields)
    IN  [ rows     |-> u.rows,
          id       |-> u.id,
          existing |-> ~ u.inserted,
          last_id  |-> last_id + Cardinality(missing) + (IF u.inserted THEN 1 ELSE 0),
          returned |-> { << week_start, "weekly", u.id >> } \cup
                       { << d, "daily", (CHOOSE r \in DailyOf(healed, d) : TRUE).id >> :
                         d \in SeqRange(days) } ]

\* compile_week_memory on the snapshot rows `rows`: the days with no daily
\* snapshot are compiled in order, then the week is aggregated from the daily
\* snapshots and upserted.  Gives the rows after it, the identifier it
\* returns, the last identifier used, and the days it compiled.
compiled_week(rows, last_id, week_start) ==
    LET days == WeekDaysOf(week_start)
        missing == { d \in SeqRange(days) : DailyOf(rows, d) = {} }
        rank(d) == Cardinality({ m \in missing : m <= d })
        healed == rows \cup
                    { [ id |-> last_id + rank(d), date |-> d,
                        snapshot_type |-> "daily", fields |-> DayFields(d) ] : d \in missing }
        daily_snapshots == [ i \in DOMAIN days |-> CHOOSE r \in DailyOf(healed, days[i]) : TRUE ]
        fields == BuildWeekFields(week_start, daily_snapshots)
        u == upserted_narrative(healed, last_id + Cardinality(missing),
                                week_start, "weekly", fields)
    IN  [ rows     |-> u.rows,
          id       |-> u.id,
          existing |-> ~ u.inserted,
          last_id  |-> last_id + Cardinality(missing) + (IF u.inserted THEN 1 ELSE 0),
          returned |-> { << week_start, "weekly", u.id >> } \cup
                       { << d, "daily", (CHOOSE r \in DailyOf(healed, d) : TRUE).id >> :
                         d \in missing } ]

\* POST /memory/compile-week
compile_week_memory(week_start) ==
    LET c == compiled_week(narrative_memory, id_seq.narrative_memory, week_start) IN
    /\ ops < MaxOps
    /\ ops' = ops + 1
    /\ narrative_memory' = c.rows
    /\ id_seq' = [ id_seq EXCEPT !.narrative_memory = c.last_id ]
    /\ resp' = [ kind |-> "compile_week", date |-> week_start, id |-> c.id,
                 existing |-> c.existing ]
    /\ hist' = [ hist EXCEPT !.compiled = @ \cup c.returned ]
    /\ UNCHANGED <<entries, tasks, transactions, north_star_snapshots, task_id_seq,
                   domain_vars, rules_router, req, reactor_vars>>

\* ------------------------------------------- concurrent snapshot writers
\* Requests of several callers on one store.  Every query and every commit is
\* a step of its own, except that queries whose answer no other request can
\* change any more (a daily snapshot that exists is never deleted) are taken
\* together with the query that follows them.  No request of these changes
\* entries or domain records.
upsert_frame ==
    <<entries, tasks, transactions, domain_vars, behavior_events, event_id_seq,
      task_id_seq, sess, calls, callers, given, resp, rules_router>>

Ended(c) == req[c].pc \in { "idle", "returned", "raised" }

IdOf(rows) == IF rows = {} THEN 0 ELSE (CHOOSE r \in rows : TRUE).id

NarrativeOf(key) ==
    { r \in narrative_memory : r.date = key[1] /\ r.snapshot_type = key[2] }

\* compile_day_memory up to the lookup of _upsert_snapshot
compile_day_lookup(c, day) ==
    /\ Ended(c)
    /\ ops < MaxOps
    /\ ops' = ops + 1
    /\ req' = [ req EXCEPT ![c] =
                  [ IdleRequest EXCEPT
                      !.pc = "write", !.op = "compile_day", !.date = day,
                      !.key = << day, "daily" >>, !.value = DayFields(day),
                      !.existing = IdOf(NarrativeOf(<< day, "daily" >>)) ] ]
    /\ UNCHANGED <<narrative_memory, north_star_snapshots, id_seq, hist, upsert_frame>>

\* compile_week_memory is entered
compile_week_start(c, week_start) ==
    /\ Ended(c)
    /\ ops < MaxOps
    /\ ops' = ops + 1
    /\ req' = [ req EXCEPT ![c] =
                  [ IdleRequest EXCEPT
                      !.pc = "week_scan", !.op = "compile_week", !.date = week_start,
                      !.i = 1 ] ]
    /\ UNCHANGED <<narrative_memory, north_star_snapshots, id_seq, hist, upsert_frame>>

\* the loop of compile_week_memory from day i on: the lookups up to the first
\* day that has no daily snapshot; if every day has one, the aggregation and
\* the lookup of _upsert_snapshot for the weekly key
compile_week_scan(c) ==
    /\ req[c].pc = "week_scan"
    /\ LET q == req[c]
           days == WeekDaysOf(q.date)
           absent == { j \in DOMAIN days : j >= q.i /\ DailyOf(narrative_memory, days[j]) = {} }
           daily_snapshots == [ j \in DOMAIN days |->
                                  CHOOSE r \in DailyOf(narrative_memory, days[j]) : TRUE ]
       IN  req' = [ req EXCEPT ![c] =
                     IF absent # {}
                     THEN [ q EXCEPT !.i = CHOOSE j \in absent : \A k \in absent : j <= k,
                                     !.pc = "heal_lookup" ]
                     ELSE [ q EXCEPT
                              !.i = Len(days) + 1,
                              !.key = << q.date, "weekly" >>,
                              !.value = BuildWeekFields(q.date, daily_snapshots),
                              !.existing = IdOf(NarrativeOf(<< q.date, "weekly" >>)),
                              !.pc = "write" ] ]
    /\ UNCHANGED <<narrative_memory, north_star_snapshots, id_seq, ops, hist, upsert_frame>>

\* snap is None: compile_day_memory(db, d) up to the lookup of _upsert_snapshot
compile_week_heal_lookup(c) ==
    /\ req[c].pc = "heal_lookup"
    /\ LET q == req[c]
           d == WeekDaysOf(q.date)[q.i]
       IN  req' = [ req EXCEPT ![c] =
                     [ q EXCEPT !.key = << d, "daily" >>, !.value = DayFields(d),
                                !.existing = IdOf(NarrativeOf(<< d, "daily" >>)),
                                !.invoked = Append(@, d),
                                !.pc = "heal_write" ] ]
    /\ UNCHANGED <<narrative_memory, north_star_snapshots, id_seq, ops, hist, upsert_frame>>

\* the rest of _upsert_snapshot of memory.py: set the fields of the row found,
\* or add a new row; then db.commit().  The INSERT of a key another request
\* has committed since the lookup raises IntegrityError, which nothing catches.
_upsert_snapshot_commit(c) ==
    /\ req[c].pc \in { "write", "heal_write" }
    /\ LET q == req[c]
           new_id == id_seq.narrative_memory + 1
           done == IF q.pc = "heal_write"
                   THEN [ q EXCEPT !.i = @ + 1, !.pc = "week_scan" ]
                   ELSE [ q EXCEPT !.pc = "returned" ]
       IN  IF q.existing # 0
           THEN /\ narrative_memory' =
                     { IF r.id = q.existing THEN [ r EXCEPT !.fields = q.value ] ELSE r :
                       r \in narrative_memory }
                /\ req' = [ req EXCEPT ![c] = [ done EXCEPT !.id = q.existing ] ]
                /\ hist' = [ hist EXCEPT !.compiled = @ \cup { << q.key[1], q.key[2], q.existing >> } ]
                /\ UNCHANGED id_seq
           ELSE IF NarrativeOf(q.key) # {}
           THEN /\ req' = [ req EXCEPT ![c] = [ q EXCEPT !.pc = "raised", !.failed = q.key ] ]
                /\ id_seq' = [ id_seq EXCEPT !.narrative_memory = new_id ]
                /\ UNCHANGED <<narrative_memory, hist>>
           ELSE /\ narrative_memory' = narrative_memory \cup
                     { [ id |-> new_id, date |-> q.key[1], snapshot_type |-> q.key[2],
                         fields |-> q.value ] }
                /\ id_seq' = [ id_seq EXCEPT !.narrative_memory = new_id ]
                /\ req' = [ req EXCEPT ![c] = [ done EXCEPT !.id = new_id ] ]
                /\ hist' = [ hist EXCEPT !.compiled = @ \cup { << q.key[1], q.key[2], new_id >> } ]
    /\ UNCHANGED <<north_star_snapshots, ops, upsert_frame>>

\* get_north_star is entered
get_north_star_start(c, reference_date) ==
    /\ Ended(c)
    /\ ops < MaxOps
    /\ ops' = ops + 1
    /\ req' = [ req EXCEPT ![c] =
                  [ IdleRequest EXCEPT
                      !.pc = "days", !.op = "north_star", !.date = reference_date,
                      !.i = 1 ] ]
    /\ UNCHANGED <<narrative_memory, north_star_snapshots, id_seq, hist, upsert_frame>>

\* [_check_day(db, d) for d in days] from day i on, up to and including the
\* first day that has no daily snapshot
calculate_weekly_clarity_days(c) ==
    /\ req[c].pc = "days"
    /\ LET q == req[c]
           day(j) == q.date - (TOTAL_DAYS - j)
           absent == { j \in q.i..TOTAL_DAYS : DailyOf(narrative_memory, day(j)) = {} }
           last == IF absent = {} THEN TOTAL_DAYS
                   ELSE CHOOSE j \in absent : \A k \in absent : j <= k
       IN  req' = [ req EXCEPT ![c] =
                     [ q EXCEPT
                         !.daily = @ \o [ j \in 1..(last - q.i + 1) |-> _check_day(day(q.i + j - 1)) ],
                         !.i = last + 1,
                         !.pc = IF last = TOTAL_DAYS THEN "lookup" ELSE "days" ] ]
    /\ UNCHANGED <<narrative_memory, north_star_snapshots, id_seq, ops, hist, upsert_frame>>

\* the rest of calculate_weekly_clarity, then the lookup of _upsert_snapshot
get_north_star_lookup(c) ==
    /\ req[c].pc = "lookup"
    /\ LET q == req[c]
           complete == Cardinality({ j \in DOMAIN q.daily : q.daily[j].is_complete })
           total == Len(q.daily)
           result == [ reference_date |-> q.date,
                       clarity_score  |-> Quantize(complete, total),
                       complete_days  |-> complete,
                       total_days     |-> total,
                       days           |-> q.daily ]
       IN  req' = [ req EXCEPT ![c] =
                     [ q EXCEPT
                         !.key = << "weekly", q.date >>,
                         !.value = result,
                         !.existing = IdOf({ r \in north_star_snapshots :
                                               r.period_type = "weekly"
                                                   /\ r.reference_date = q.date }),
                         !.pc = "ns_write" ] ]
    /\ UNCHANGED <<narrative_memory, north_star_snapshots, id_seq, ops, hist, upsert_frame>>

\* the rest of _upsert_snapshot of north_star_service.py: set the values of the
\* row found, or add a new row; then db.commit(), whose IntegrityError nothing
\* catches
get_north_star_commit(c) ==
    /\ req[c].pc = "ns_write"
    /\ LET q == req[c]
           new_id == id_seq.north_star_snapshots + 1
           values == [ clarity_score |-> q.value.clarity_score,
                       complete_days |-> q.value.complete_days,
                       total_days    |-> q.value.total_days ]
       IN  IF q.existing # 0
           THEN /\ north_star_snapshots' =
                     { IF r.id = q.existing
                       THEN [ r EXCEPT !.clarity_score = values.clarity_score,
                                       !.complete_days = values.complete_days,
                                       !.total_days = values.total_days ]
                       ELSE r : r \in north_star_snapshots }
                /\ req' = [ req EXCEPT ![c] = [ q EXCEPT !.pc = "returned", !.id = q.existing ] ]
                /\ hist' = [ hist EXCEPT !.evaluated[q.date] = values ]
                /\ UNCHANGED id_seq
           ELSE IF \E r \in north_star_snapshots :
                      r.period_type = "weekly" /\ r.reference_date = q.date
           THEN /\ req' = [ req EXCEPT ![c] = [ q EXCEPT !.pc = "raised", !.failed = q.key ] ]
                /\ id_seq' = [ id_seq EXCEPT !.north_star_snapshots = new_id ]
                /\ UNCHANGED <<north_star_snapshots, hist>>
           ELSE /\ north_star_snapshots' = north_star_snapshots \cup
                     { [ id |-> new_id, period_type |-> "weekly", reference_date |-> q.date,
                         clarity_score |-> values.clarity_score,
                         complete_days |-> values.complete_days,
                         total_days    |-> values.total_days ] }
                /\ id_seq' = [ id_seq EXCEPT !.north_star_snapshots = new_id ]
                /\ req' = [ req EXCEPT ![c] = [ q EXCEPT !.pc = "returned", !.id = new_id ] ]
                /\ hist' = [ hist EXCEPT !.evaluated[q.date] = values ]
    /\ UNCHANGED <<narrative_memory, ops, upsert_frame>>

\* ------------------------------------------------------------ seeded stores
\* what the requests of the tests leave on a day: nothing; a complete day
\* (TODO, expense, FACT, compile-day); the same without compile-day; three FACTs
\* and compile-day; expense, FACT and compile-day; and a day whose task was
\* marked done
DaySeeds == { "empty", "complete", "no_snapshot", "no_outcome", "two_entries", "task_done" }

SeedTargets(seed) ==
    CASE seed = "empty"       -> <<>>
      [] seed = "complete"    -> << "tasks", "transactions", "facts" >>
      [] seed = "no_snapshot" -> << "tasks", "transactions", "facts" >>
      [] seed = "no_outcome"  -> << "facts", "facts", "facts" >>
      [] seed = "two_entries" -> << "transactions", "facts" >>
      [] seed = "task_done"   -> << "tasks", "facts", "facts" >>

SeedCompiled(seed) == seed \in { "complete", "no_outcome", "two_entries", "task_done" }

SeedEntries(seeds) ==
    UNION { { [ id |-> MIN_EVENTS * (d - 1) + j, day |-> d,
                routed_to |-> SeedTargets(seeds[d])[j] ] :
              j \in DOMAIN SeedTargets(seeds[d]) } : d \in Days }

SeedTasks(seeds) ==
    { [ id |-> d, title |-> "ingested",
        status |-> IF seeds[d] = "task_done" THEN "done" ELSE "pending", day |-> d ] :
      d \in { x \in Days : "tasks" \in SeqRange(SeedTargets(seeds[x])) } }

SeedTransactions(seeds) ==
    { [ id |-> d, day |-> d, amount |-> 5, tx_type |-> "expense" ] :
      d \in { x \in Days : "transactions" \in SeqRange(SeedTargets(seeds[x])) } }

SeedFacts(seeds) ==
    { [ id |-> e.id, entry_id |-> e.id, content |-> RawOf("facts"), day |-> e.day ] :
      e \in { x \in SeedEntries(seeds) : x.routed_to = "facts" } }

\* the daily snapshots of the compiled days, compiled from the day's seeded rows
SeedNarrative(seeds) ==
    { [ id |-> d, date |-> d, snapshot_type |-> "daily",
        fields |-> _build_day_fields(d,
                      { e \in SeedEntries(seeds) : e.day = d },
                      { k \in SeedTasks(seeds) : k.day = d },
                      { x \in SeedTransactions(seeds) : x.day = d },
                      { f \in SeedFacts(seeds) : f.day = d },
                      {}) ] :
      d \in { x \in Days : SeedCompiled(seeds[x]) } }

\* days 1..7 complete or empty after one of the week shapes and day 8 empty,
\* or days 1..7 empty and day 8 any seed
WeekSeeds ==
    { [ d \in Days |-> IF d <= TOTAL_DAYS
                       THEN (IF f[d] THEN "complete" ELSE "empty")
                       ELSE "empty" ] : f \in RaceFlags } \cup
    { [ d \in Days |-> IF d <= TOTAL_DAYS THEN "empty" ELSE last ] : last \in DaySeeds }

\* the days requests write to: the last two of the calendar
OpDays == RefDates

\* the weeks requests compile: the two that end on a reference date
WeekStarts == { r - (WEEK_DAYS - 1) : r \in RefDates }

\* ----------------------------------------------------------- specifications
EmptyStore ==
    /\ entries = {}
    /\ tasks = {}
    /\ transactions = {}
    /\ narrative_memory = {}
    /\ north_star_snapshots = {}
    /\ behavior_events = {}
    /\ facts = {}
    /\ metrics_daily = {}
    /\ projects = {}
    /\ daily_logs = {}
    /\ memory_snapshots = {}
    /\ id_seq = [ entries |-> 0, transactions |-> 0, narrative_memory |-> 0,
                  north_star_snapshots |-> 0, facts |-> 0, metrics_daily |-> 0,
                  projects |-> 0 ]
    /\ event_id_seq = 0
    /\ task_id_seq = 0

NotEvaluated == [ clarity_score |-> 0, complete_days |-> 0, total_days |-> 0 ]

NoHistory ==
    [ compiled  |-> {},                                   \* <<date, type, id>> returned by a compile
      evaluated |-> [ r \in RefDates |-> NotEvaluated ],   \* the last weekly result of a date
      rewritten |-> {} ]                                  \* dates whose cached score was replaced

NoRequests ==
    /\ ops = 0
    /\ resp = NoResponse
    /\ hist = NoHistory
    /\ rules_router = DEFAULT_RULES
    /\ req = [ c \in Callers |-> IdleRequest ]

\* concurrent callers of the reactor
Init ==
    /\ EmptyStore
    /\ NoRequests
    /\ sess = [ c \in Callers |-> IdleSession ]
    /\ calls = 0
    /\ callers = Callers
    /\ given = NoWeekly

Next ==
    \/ \E c \in callers : evaluate_and_react(c)
    \/ \E c \in callers : _rule_clarity_warning(c)
    \/ \E c \in callers : _rule_reset_day_protocol(c)
    \/ \E c \in callers : reset_flush_and_add(c)
    \/ \E c \in callers : _rule_perfect_week(c)
    \/ \E c \in callers : commit_and_return(c)

Spec == Init /\ [][Next]_vars

\* one caller reacting repeatedly to one WeeklyClarity, over every week shape
\* and boundary score
InitRules ==
    /\ EmptyStore
    /\ NoRequests
    /\ sess = [ c \in Callers |-> IdleSession ]
    /\ calls = 0
    /\ callers = {1}
    /\ given \in RuleInputs

SpecRules == InitRules /\ [][Next]_vars

\* the store the requests of a seed leave; the cache table is set by the caller
SeededStore(seeds) ==
    /\ entries = SeedEntries(seeds)
    /\ tasks = SeedTasks(seeds)
    /\ transactions = SeedTransactions(seeds)
    /\ narrative_memory = SeedNarrative(seeds)
    /\ facts = SeedFacts(seeds)
    /\ metrics_daily = {}
    /\ projects = {}
    /\ daily_logs = {}
    /\ memory_snapshots = {}
    /\ behavior_events = {}
    /\ id_seq = [ entries |-> MIN_EVENTS * (TOTAL_DAYS + 1),
                  transactions |-> TOTAL_DAYS + 1,
                  narrative_memory |-> TOTAL_DAYS + 1,
                  north_star_snapshots |-> Cardinality(north_star_snapshots),
                  facts |-> MIN_EVENTS * (TOTAL_DAYS + 1),
                  metrics_daily |-> 0,
                  projects |-> 0 ]
    /\ event_id_seq = 0
    /\ task_id_seq = TOTAL_DAYS + 1

NoReactor ==
    /\ sess = [ c \in Callers |-> IdleSession ]
    /\ calls = 0
    /\ callers = {}
    /\ given = NoWeekly

\* the HTTP endpoints over a seeded store, one request at a time
InitClarity ==
    /\ north_star_snapshots = {}
    /\ \E seeds \in WeekSeeds : SeededStore(seeds)
    /\ NoRequests
    /\ NoReactor

NextClarity ==
    \/ \E target \in Targets : \E day \in OpDays : ingest_raw(RawOf(target), target, day)
    \/ \E day \in OpDays : compile_day_memory(day)
    \/ \E day \in Days : north_star_day(day)
    \/ \E reference_date \in RefDates : north_star(reference_date)

SpecClarity == InitClarity /\ [][NextClarity]_vars

\* the weekly score over every shape of the week 1..7.  The cache is empty, or
\* holds for day 7 the row an evaluation left before the week's records were
\* ingested.
AllWeekSeeds ==
    { [ d \in Days |-> IF d <= TOTAL_DAYS /\ f[d] THEN "complete" ELSE "empty" ] :
      f \in WeekFlags }

StaleRow(r) ==
    [ id |-> 1, period_type |-> "weekly", reference_date |-> r,
      clarity_score |-> 0, complete_days |-> 0, total_days |-> TOTAL_DAYS ]

InitWeek ==
    /\ \/ /\ north_star_snapshots = {}
          /\ hist = NoHistory
       \/ /\ north_star_snapshots = { StaleRow(TOTAL_DAYS) }
          /\ hist = [ NoHistory EXCEPT !.evaluated[TOTAL_DAYS] =
                        [ clarity_score |-> 0, complete_days |-> 0,
                          total_days |-> TOTAL_DAYS ] ]
    /\ \E seeds \in AllWeekSeeds : SeededStore(seeds)
    /\ ops = 0
    /\ resp = NoResponse
    /\ rules_router = DEFAULT_RULES
    /\ req = [ c \in Callers |-> IdleRequest ]
    /\ NoReactor

NextWeek ==
    \/ \E day \in Days : north_star_day(day)
    \/ \E reference_date \in RefDates : north_star(reference_date)

SpecWeek == InitWeek /\ [][NextWeek]_vars

\* the narrative compiler over a seeded store, one request at a time
InitMemory ==
    /\ north_star_snapshots = {}
    /\ \E seeds \in WeekSeeds : SeededStore(seeds)
    /\ NoRequests
    /\ NoReactor

\* the same stores after POST /memory/compile-week for the first week
InitMemoryCompiled ==
    /\ north_star_snapshots = {}
    /\ \E seeds \in WeekSeeds :
         /\ entries = SeedEntries(seeds)
         /\ tasks = SeedTasks(seeds)
         /\ transactions = SeedTransactions(seeds)
         /\ facts = SeedFacts(seeds)
         /\ metrics_daily = {}
         /\ projects = {}
         /\ daily_logs = {}
         /\ memory_snapshots = {}
         /\ behavior_events = {}
         /\ event_id_seq = 0
         /\ task_id_seq = TOTAL_DAYS + 1
         /\ LET c == compiled_week(SeedNarrative(seeds), TOTAL_DAYS + 1, 1) IN
              /\ narrative_memory = c.rows
              /\ id_seq = [ entries |-> MIN_EVENTS * (TOTAL_DAYS + 1),
                            transactions |-> TOTAL_DAYS + 1,
                            narrative_memory |-> c.last_id,
                            north_star_snapshots |-> 0,
                            facts |-> MIN_EVENTS * (TOTAL_DAYS + 1),
                            metrics_daily |-> 0,
                            projects |-> 0 ]
              /\ hist = [ NoHistory EXCEPT !.compiled = c.returned ]
    /\ ops = 0
    /\ resp = NoResponse
    /\ rules_router = DEFAULT_RULES
    /\ req = [ c \in Callers |-> IdleRequest ]
    /\ NoReactor

NextMemory ==
    \/ \E target \in Targets : \E day \in OpDays : ingest_raw(RawOf(target), target, day)
    \/ \E day \in OpDays : compile_day_memory(day)
    \/ \E week_start \in WeekStarts : compile_week_memory(week_start)

SpecMemory == (InitMemory \/ InitMemoryCompiled) /\ [][NextMemory]_vars

\* concurrent compile-day, compile-week and weekly-score requests for day 7 and
\* the week 1..7, over a week whose days all have a daily snapshot and over one
\* whose last two days have none
UpsertSeeds ==
    { [ d \in Days |-> IF d <= TOTAL_DAYS THEN "complete" ELSE "empty" ],
      [ d \in Days |-> IF d < TOTAL_DAYS - 1 THEN "complete"
                       ELSE IF d = TOTAL_DAYS - 1 THEN "no_snapshot" ELSE "empty" ] }

InitUpsert ==
    /\ north_star_snapshots = {}
    /\ \E seeds \in UpsertSeeds : SeededStore(seeds)
    /\ NoRequests
    /\ NoReactor

NextUpsert ==
    \/ \E c \in Callers : compile_day_lookup(c, TOTAL_DAYS)
    \/ \E c \in Callers : compile_week_start(c, 1)
    \/ \E c \in Callers : compile_week_scan(c)
    \/ \E c \in Callers : compile_week_heal_lookup(c)
    \/ \E c \in Callers : _upsert_snapshot_commit(c)
    \/ \E c \in Callers : get_north_star_start(c, TOTAL_DAYS)
    \/ \E c \in Callers : calculate_weekly_clarity_days(c)
    \/ \E c \in Callers : get_north_star_lookup(c)
    \/ \E c \in Callers : get_north_star_commit(c)

SpecUpsert == InitUpsert /\ [][NextUpsert]_vars

\* the router over every list of at most MaxRules rules.  The i-th rule of a
\* list is named after its position; its pattern, priority and is_active are
\* free.
RuleNames == << "r1", "r2", "r3", "r4" >>
RuleTargets == << "facts", "tasks", "transactions", "projects" >>
RuleEntryTypes == << "note", "task", "transaction", "project" >>
RulePatterns == { PatternPrefix({"TODO"}), PatternContains({"paid"}), PatternAny,
                  PatternInvalid }
RulePriorities == { 0, 100 }

RuleAt(i) ==
    { Rule(RuleNames[i], pattern, RuleTargets[i], RuleEntryTypes[i], priority, is_active) :
      pattern \in RulePatterns, priority \in RulePriorities, is_active \in BOOLEAN }

RuleLists ==
    UNION { { s \in [ 1..n -> UNION { RuleAt(i) : i \in 1..n } ] :
              \A i \in 1..n : s[i] \in RuleAt(i) } : n \in 0..MaxRules }

Texts == { <<>>, <<"todo", "paid">>, <<"paid">>, <<"hoy">> }

InitRouter ==
    /\ EmptyStore
    /\ NoReactor
    /\ ops = 0
    /\ resp = NoResponse
    /\ hist = NoHistory
    /\ req = [ c \in Callers |-> IdleRequest ]
    /\ rules_router \in RuleLists

NextRouter ==
    \/ \E raw \in Texts : route_entry(raw)
    \/ \E raw \in Texts : route_entry_from_rules(raw)

SpecRouter == InitRouter /\ [][NextRouter]_vars

\* POST /ingest over the empty store, for texts routed to each target a rule
\* can name
InitIngest ==
    /\ EmptyStore
    /\ NoRequests
    /\ NoReactor

NextIngest == \E target \in AllTargets : \E day \in OpDays : ingest_raw(RawOf(target), target, day)

SpecIngest == InitIngest /\ [][NextIngest]_vars

\* POST /ingest/batch over the empty store: batches of 1 to MaxItems items,
\* each a task or the metric "steps" of one day
BatchItems ==
    { BatchItem(RawOf(target), target, TOTAL_DAYS) : target \in { "tasks", "metrics_daily" } }

Batches ==
    UNION { [ 1..n -> BatchItems ] : n \in 1..MaxItems }

InitBatch ==
    /\ EmptyStore
    /\ NoRequests
    /\ NoReactor

NextBatch == \E items \in Batches : ingest_batch(items)

SpecBatch == InitBatch /\ [][NextBatch]_vars

\* POST /ingest of metric and transaction texts, with and without the parts
\* the extraction looks for
ExtractTexts ==
    { BatchItem(<< "KPI:", "hola" >>, "metrics_daily", day) : day \in OpDays } \cup
    { BatchItem(<< "METRIC:", "sin", "valor" >>, "metrics_daily", day) : day \in OpDays } \cup
    { BatchItem(<< "METRIC:", "steps", "=", "1.2.3" >>, "metrics_daily", day) : day \in OpDays } \cup
    { BatchItem(<< "gasto", "sin", "monto" >>, "transactions", day) : day \in OpDays } \cup
    { BatchItem(<< "gasto", "$5", "y" >>, "transactions", day) : day \in OpDays } \cup
    { BatchItem(<< "income", "5" >>, "transactions", day) : day \in OpDays } \cup
    { BatchItem(RawOf("metrics_daily"), "metrics_daily", day) : day \in OpDays }

InitExtract ==
    /\ EmptyStore
    /\ NoRequests
    /\ NoReactor

NextExtract == \E item \in ExtractTexts : ingest_raw(item.raw, item.target, item.day)

SpecExtract == InitExtract /\ [][NextExtract]_vars

\* concurrent close-day requests for the last day of the week, between
\* ingests for that day
InitClose ==
    /\ EmptyStore
    /\ NoRequests
    /\ NoReactor

NextClose ==
    \/ \E c \in Callers : state_close_day(c, TOTAL_DAYS)
    \/ \E c \in Callers : close_day_lookup(c)
    \/ \E c \in Callers : close_day(c)
    \/ ingest_raw(RawOf("tasks"), "tasks", TOTAL_DAYS)

SpecClose == InitClose /\ [][NextClose]_vars

\* every operation of the system, one request at a time, over a week that is
\* complete and a week whose last days are not: ingest, batch ingest, the
\* compilers, the daily and weekly score, the reactor and close-day.  At most
\* MaxOps writing requests are served.
SystemInputs ==
    { MakeWeekly(TOTAL_DAYS, [ i \in 1..TOTAL_DAYS |-> b ],
                 Quantize(IF b THEN TOTAL_DAYS ELSE 0, TOTAL_DAYS)) : b \in BOOLEAN }

InitSystem ==
    /\ north_star_snapshots = {}
    /\ \E seeds \in UpsertSeeds : SeededStore(seeds)
    /\ NoRequests
    /\ sess = [ c \in Callers |-> IdleSession ]
    /\ calls = 0
    /\ callers = {1}
    /\ given \in SystemInputs

\* no request is being served
Quiet ==
    \A c \in Callers :
        /\ sess[c].pc \in { "idle", "returned", "raised" }
        /\ req[c].pc \in { "idle", "returned", "raised", "rejected" }

\* a further writing request may be served
Budget == ops + calls + Cardinality(memory_snapshots) < MaxOps

NextSystem ==
    \/ Quiet /\ Budget /\ \E target \in Targets : ingest_raw(RawOf(target), target, TOTAL_DAYS)
    \/ Quiet /\ Budget /\ \E item \in BatchItems : ingest_batch(<< item, item >>)
    \/ Quiet /\ Budget /\ compile_day_memory(TOTAL_DAYS)
    \/ Quiet /\ Budget /\ compile_week_memory(1)
    \/ Quiet /\ north_star_day(TOTAL_DAYS)
    \/ Quiet /\ Budget /\ north_star(TOTAL_DAYS)
    \/ Quiet /\ Budget /\ evaluate_and_react(1)
    \/ _rule_clarity_warning(1)
    \/ _rule_reset_day_protocol(1)
    \/ reset_flush_and_add(1)
    \/ _rule_perfect_week(1)
    \/ commit_and_return(1)
    \/ Quiet /\ Budget /\ state_close_day(1, TOTAL_DAYS)
    \/ close_day_lookup(1)
    \/ close_day(1)

SpecSystem == InitSystem /\ [][NextSystem]_vars

\* ------------------------------------------------------------------ claims
Created(c) == SeqRange(sess[c].result.events_created)
Skipped(c) == SeqRange(sess[c].result.events_skipped)
Occurs(seq, x) == Cardinality({ i \in DOMAIN seq : seq[i] = x })

EventsFor(event_type, ref_date) ==
    { e \in behavior_events : e.event_type = event_type /\ e.reference_date = ref_date }

ResetTasksFor(ref_date) ==
    { t \in tasks : t.title = RESET_TITLE /\ t.day = ref_date }

\* C1: the store holds at most one BehaviorEvent for each
\* (event_type, reference_date), whatever the callers and their interleaving.
C1_AtMostOneEventPerKey ==
    \A e1 \in behavior_events : \A e2 \in behavior_events :
        (e1.event_type = e2.event_type /\ e1.reference_date = e2.reference_date)
            => e1 = e2

\* two callers raced on a key: one holds the row, the other's insert was refused
C1_Witness ==
    \E c \in Callers : \E t \in sess[c].lost :
        EventsFor(t, sess[c].weekly.reference_date) # {}

\* C2: a second react with the identical WeeklyClarity returns normally, creates
\* nothing, reports every rule whose trigger holds as skipped, reports
\* taskCreated false, and leaves no two events with one key.
C2_SecondCallSkips ==
    (calls >= 2 /\ sess[1].pc \in {"returned", "raised"}) =>
        /\ sess[1].pc = "returned"
        /\ Created(1) = {}
        /\ sess[1].result.task_created = FALSE
        /\ LET w == sess[1].weekly IN
             /\ (w.clarity_score < 4000) <=> (CLARITY_WARNING \in Skipped(1))
             /\ (w.clarity_score = 10000) <=> (PERFECT_WEEK \in Skipped(1))
             /\ (Len(w.days) >= 3 /\ \A i \in DOMAIN w.days :
                    i > Len(w.days) - 3 => ~ w.days[i].is_complete)
                  <=> (RESET_DAY_PROTOCOL \in Skipped(1))
             /\ \A t \in EventTypes :
                  Cardinality(EventsFor(t, w.reference_date)) <= 1
             /\ Cardinality(ResetTasksFor(w.reference_date)) <= 1

\* the second call returned after the first created the reset event and task
C2_Witness ==
    /\ calls >= 2
    /\ sess[1].pc = "returned"
    /\ Skipped(1) = {CLARITY_WARNING, RESET_DAY_PROTOCOL}
    /\ ResetTasksFor(sess[1].weekly.reference_date) # {}

\* C3: a caller whose insert violates the uniqueness constraint gets a normal
\* result that reports the event type as skipped and not as created; no error
\* reaches it.
C3_LoserReportsSkipped ==
    \A c \in Callers :
        (sess[c].pc \in {"returned", "raised"} /\ sess[c].lost # {}) =>
            /\ sess[c].pc = "returned"
            /\ \A t \in sess[c].lost : t \in Skipped(c) /\ t \notin Created(c)

\* C4: reset tasks and reset events go together: per reference date there are
\* as many reactor-created reset tasks as reset_day_protocol events (0 or 1),
\* the event's metadata records the id of that pending task, and a call that
\* found the event present created no task.
C4_TaskWithEvent ==
    /\ \A r \in RefDates :
         /\ Cardinality(ResetTasksFor(r)) = Cardinality(EventsFor(RESET_DAY_PROTOCOL, r))
         /\ Cardinality(ResetTasksFor(r)) <= 1
         /\ \A e \in EventsFor(RESET_DAY_PROTOCOL, r) :
              \E t \in ResetTasksFor(r) :
                  t.id = e.event_metadata.task_id /\ t.status = "pending"
    /\ \A c \in Callers :
         sess[c].pc = "returned" =>
            /\ RESET_DAY_PROTOCOL \in Skipped(c) => ~ sess[c].result.task_created
            /\ RESET_DAY_PROTOCOL \in Created(c) <=> sess[c].result.task_created

\* one call committed the reset event with its task, a later one skipped it
C4_Witness ==
    \E c \in Callers :
        /\ sess[c].pc = "returned"
        /\ RESET_DAY_PROTOCOL \in Skipped(c)
        /\ Cardinality(ResetTasksFor(sess[c].weekly.reference_date)) = 1

Fired(c, t) == t \in Created(c) \cup Skipped(c)

\* C6: clarity_warning fires (created or skipped) iff the score is strictly
\* below 0.4; a score of exactly 0.4 does not fire it.
C6_WarningIffBelowThreshold ==
    \A c \in callers :
        sess[c].pc = "returned" =>
            (Fired(c, CLARITY_WARNING) <=> sess[c].weekly.clarity_score < 4000)

\* a call with score exactly 0.4 returned
C6_Witness ==
    \E c \in callers :
        /\ sess[c].pc = "returned"
        /\ sess[c].weekly.clarity_score = 4000
        /\ ~ Fired(c, CLARITY_WARNING)

\* C7: perfect_week fires iff the score equals 1.0 exactly, which for a score
\* computed from the breakdown means all 7 days complete.
C7_PerfectIffOne ==
    \A c \in callers :
        sess[c].pc = "returned" =>
            LET w == sess[c].weekly IN
            /\ Fired(c, PERFECT_WEEK) <=> w.clarity_score = 10000
            /\ (Len(w.days) = 7 /\ w.clarity_score = (2 * w.complete_days * 10000 + 7) \div 14)
                 => (Fired(c, PERFECT_WEEK) <=> \A i \in 1..7 : w.days[i].is_complete)

\* a call with score 0.9999 returned without a perfect_week
C7_Witness ==
    \E c \in callers :
        /\ sess[c].pc = "returned"
        /\ sess[c].weekly.clarity_score = 9999
        /\ ~ Fired(c, PERFECT_WEEK)

\* C8: reset_day_protocol fires iff the last 3 days of the 7-day breakdown are
\* all incomplete, whatever the first 4 days are; the stored event's metadata
\* lists exactly those 3 dates.
C8_ResetIffTailIncomplete ==
    \A c \in callers :
        (sess[c].pc = "returned" /\ Len(sess[c].weekly.days) = 7) =>
            LET w == sess[c].weekly
                r == w.reference_date
            IN
            /\ Fired(c, RESET_DAY_PROTOCOL) <=> \A i \in 5..7 : ~ w.days[i].is_complete
            /\ \A e \in EventsFor(RESET_DAY_PROTOCOL, r) :
                 e.event_metadata.incomplete_days =
                    << DateStr(r - 2), DateStr(r - 1), DateStr(r) >>

\* the reset fired on a week whose first four days are mixed
C8_Witness ==
    \E c \in callers :
        /\ sess[c].pc = "returned"
        /\ RESET_DAY_PROTOCOL \in Created(c)
        /\ sess[c].weekly.days[1].is_complete
        /\ ~ sess[c].weekly.days[2].is_complete
        /\ EventsFor(RESET_DAY_PROTOCOL, sess[c].weekly.reference_date) # {}

\* what C9 asks of the result and the commits of caller c's call
RulesReported(c) ==
            LET w == sess[c].weekly
                res == sess[c].result
                n(t) == Occurs(res.events_created, t) + Occurs(res.events_skipped, t)
            IN
            /\ n(CLARITY_WARNING) = IF w.clarity_score < 4000 THEN 1 ELSE 0
            /\ n(RESET_DAY_PROTOCOL) =
                 IF Len(w.days) >= 3 /\ \A i \in DOMAIN w.days :
                        i > Len(w.days) - 3 => ~ w.days[i].is_complete
                 THEN 1 ELSE 0
            /\ n(PERFECT_WEEK) = IF w.clarity_score >= 10000 THEN 1 ELSE 0
            /\ sess[c].commits = IF res.events_created = <<>> THEN 0 ELSE 1

\* C9: every react call evaluates all three rules with no early exit: when it
\* ends, a rule whose trigger holds is in exactly one of eventsCreated and
\* eventsSkipped, once; a rule whose trigger does not hold is in neither; and
\* the call committed once if it created an event and not at all otherwise.
C9_AllRulesReported ==
    \A c \in Callers :
        sess[c].pc \in {"returned", "raised"} =>
            sess[c].pc = "returned" /\ RulesReported(c)

\* C9, for the calls that return a result: the part of the claim that holds
C9_ReturnedCallsReport ==
    \A c \in Callers : sess[c].pc = "returned" => RulesReported(c)

\* C5: once GET /metrics/north-star for reference date R has returned, every
\* rule whose trigger holds for the returned WeeklyClarity has its
\* BehaviorEvent (event_type, R) in the store.
C5_ReactorRunsOnWeeklyScore ==
    resp.kind = "north_star" =>
        LET w == resp.weekly IN
        /\ ClarityWarningTrigger(w) => EventsFor(CLARITY_WARNING, w.reference_date) # {}
        /\ ResetTrigger(w) => EventsFor(RESET_DAY_PROTOCOL, w.reference_date) # {}
        /\ PerfectWeekTrigger(w) => EventsFor(PERFECT_WEEK, w.reference_date) # {}

\* C10: evaluateDay(D) reports isComplete iff D has at least 3 Entries, a done
\* Task or a Transaction, and a daily NarrativeSnapshot; eventCount,
\* hasOutcome and hasMemorySnapshot each report their own criterion.
C10_CompleteDay ==
    resp.kind = "north_star_day" =>
        LET r == resp.daily
            n == Cardinality({ e \in entries : e.day = r.day })
            outcome == \/ \E k \in tasks : k.day = r.day /\ k.status = "done"
                       \/ \E x \in transactions : x.day = r.day
            snap == \E s \in narrative_memory : s.date = r.day /\ s.snapshot_type = "daily"
        IN
        /\ r.event_count = n
        /\ r.has_outcome <=> outcome
        /\ r.has_memory_snapshot <=> snap
        /\ r.is_complete <=> (n >= 3 /\ outcome /\ snap)

\* a day reported complete with exactly 3 entries, its outcome a done task
C10_Witness ==
    /\ resp.kind = "north_star_day"
    /\ resp.daily.is_complete
    /\ resp.daily.event_count = 3
    /\ ~ \E x \in transactions : x.day = resp.daily.day

\* C11: evaluateWeek returns exactly 7 per-day entries for 7 consecutive days,
\* oldest first, the last one dated referenceDate, and totalDays is 7,
\* whatever the reference date and the store.
C11_SevenDayWindow ==
    resp.kind = "north_star" =>
        LET w == resp.weekly IN
        /\ Len(w.days) = 7
        /\ w.days[7].day = w.reference_date
        /\ \A i \in 1..6 : w.days[i + 1].day = w.days[i].day + 1
        /\ w.total_days = 7

\* the window that ends on day 8 was returned over a week with complete days
C11_Witness ==
    /\ resp.kind = "north_star"
    /\ resp.weekly.reference_date = 8
    /\ resp.weekly.days[1].day = 2
    /\ resp.weekly.complete_days > 0

\* C12: the weekly score is completeDays / 7 rounded half-up to 4 places, where
\* completeDays counts the entries of the breakdown with isComplete; it lies
\* in [0, 1] and is 1.0000 exactly when completeDays is 7.
C12_ScoreIsRoundedRatio ==
    resp.kind = "north_star" =>
        LET w == resp.weekly
            c == Cardinality({ i \in DOMAIN w.days : w.days[i].is_complete })
        IN
        /\ w.complete_days = c
        /\ 14 * w.clarity_score - 7 <= 20000 * c
        /\ 20000 * c < 14 * w.clarity_score + 7
        /\ w.clarity_score >= 0 /\ w.clarity_score <= 10000
        /\ w.clarity_score = 10000 <=> c = 7

\* 3 complete days of 7: 0.428571... is reported as 0.4286
C12_Witness ==
    /\ resp.kind = "north_star"
    /\ resp.weekly.complete_days = 3
    /\ resp.weekly.clarity_score = 4286

SnapshotsOf(date, snapshot_type) ==
    { r \in narrative_memory : r.date = date /\ r.snapshot_type = snapshot_type }

\* the weekly fields as they would be if every day were compiled anew from its records
FreshWeekFields(week_start) ==
    BuildWeekFields(week_start,
                    [ i \in 1..7 |-> [ fields |-> DayFields(week_start + (i - 1)) ] ])

\* the weekly fields aggregated from the daily snapshots now stored
StoredWeekFields(week_start) ==
    BuildWeekFields(week_start,
                    [ i \in 1..7 |->
                        CHOOSE r \in SnapshotsOf(week_start + (i - 1), "daily") : TRUE ])

\* every compile of a key returned one identifier, and a key has one snapshot
UpsertIdentity ==
    /\ \A k1 \in hist.compiled : \A k2 \in hist.compiled :
         (k1[1] = k2[1] /\ k1[2] = k2[2]) => k1[3] = k2[3]
    /\ \A r1 \in narrative_memory : \A r2 \in narrative_memory :
         (r1.date = r2.date /\ r1.snapshot_type = r2.snapshot_type) => r1 = r2
    /\ resp.kind \in { "compile_day", "compile_week" } =>
         \E r \in SnapshotsOf(resp.date, IF resp.kind = "compile_day" THEN "daily" ELSE "weekly") :
             r.id = resp.id

\* C14, as stated: compiling a key twice returns the same identifier, leaves
\* one snapshot for the key, and the snapshot's derived fields reflect the
\* records present at the second compile, for compileDay and for compileWeek.
C14_RecompileReflectsRecords ==
    /\ UpsertIdentity
    /\ (resp.kind = "compile_day" /\ resp.existing) =>
         \A r \in SnapshotsOf(resp.date, "daily") : r.fields = DayFields(resp.date)
    /\ (resp.kind = "compile_week" /\ resp.existing) =>
         \A r \in SnapshotsOf(resp.date, "weekly") : r.fields = FreshWeekFields(resp.date)

\* C14, amended: compiling a key twice returns the same identifier and leaves
\* one snapshot for the key; after the second compileDay its fields reflect
\* the records then present; after the second compileWeek its fields are the
\* aggregate of the daily snapshots then stored, which for a day compiled
\* earlier are those of that earlier compile.
C14_RecompileReflectsInputs ==
    /\ UpsertIdentity
    /\ (resp.kind = "compile_day" /\ resp.existing) =>
         \A r \in SnapshotsOf(resp.date, "daily") : r.fields = DayFields(resp.date)
    /\ (resp.kind = "compile_week" /\ resp.existing) =>
         \A r \in SnapshotsOf(resp.date, "weekly") : r.fields = StoredWeekFields(resp.date)

\* a week was compiled a second time after an entry was ingested on one of
\* its compiled days: the weekly snapshot does not show the entry
C14_Witness ==
    /\ resp.kind = "compile_week"
    /\ resp.existing
    /\ \E r \in SnapshotsOf(resp.date, "weekly") :
         r.fields = StoredWeekFields(resp.date) /\ r.fields # FreshWeekFields(resp.date)

\* C15: a compileWeek call that met a day with no daily snapshot does not
\* fail: it ends by returning, having called the daily compiler at most once
\* per day, and then each of the 7 days weekStart .. weekStart+6 has a daily
\* snapshot and the weekly snapshot (weekStart, "weekly") exists.
C15_WeekNeverFails ==
    \A c \in Callers :
        req[c].op = "compile_week" =>
            LET q == req[c] IN
            /\ q.pc # "raised"
            /\ \A d \in Days : CountOf(q.invoked, d) <= 1
            /\ q.pc = "returned" =>
                 /\ \A n \in 0..6 : DailyOf(narrative_memory, q.date + n) # {}
                 /\ \E r \in narrative_memory :
                      r.date = q.date /\ r.snapshot_type = "weekly" /\ r.id = q.id

\* C15, the part that holds: the daily compiler is called at most once per day
\* and only for days of the window; a call that returns leaves a daily
\* snapshot for each of the 7 days and the weekly snapshot it returned; a call
\* that fails failed on the insert of a key another request had inserted.
C15_WeekHealsMissingDays ==
    \A c \in Callers :
        req[c].op = "compile_week" =>
            LET q == req[c] IN
            /\ \A d \in Days : CountOf(q.invoked, d) <= 1
            /\ \A d \in SeqRange(q.invoked) : d >= q.date /\ d <= q.date + 6
            /\ q.pc = "returned" =>
                 /\ \A n \in 0..6 : DailyOf(narrative_memory, q.date + n) # {}
                 /\ \E r \in narrative_memory :
                      r.date = q.date /\ r.snapshot_type = "weekly" /\ r.id = q.id
            /\ q.pc = "raised" => NarrativeOf(q.failed) # {}

\* a weekly compile returned after compiling the two days that had no snapshot
C15_HealedAndReturned ==
    \E c \in Callers :
        /\ req[c].op = "compile_week"
        /\ req[c].pc = "returned"
        /\ req[c].invoked = << 6, 7 >>

\* C16: when two callers concurrently upsert a snapshot key that has no row
\* yet, neither caller receives an error, and one row for the key remains.
C16_DuplicateInsertAbsorbed ==
    /\ \A c \in Callers : req[c].pc # "raised"
    /\ \A r1 \in narrative_memory : \A r2 \in narrative_memory :
         (r1.date = r2.date /\ r1.snapshot_type = r2.snapshot_type) => r1 = r2
    /\ \A r1 \in north_star_snapshots : \A r2 \in north_star_snapshots :
         (r1.period_type = r2.period_type /\ r1.reference_date = r2.reference_date)
            => r1 = r2

\* C16, the part that holds: a key never has two rows, and a caller that was
\* refused leaves the row of the caller that committed first
C16_OneRowPerSnapshotKey ==
    /\ \A r1 \in narrative_memory : \A r2 \in narrative_memory :
         (r1.date = r2.date /\ r1.snapshot_type = r2.snapshot_type) => r1 = r2
    /\ \A r1 \in north_star_snapshots : \A r2 \in north_star_snapshots :
         (r1.period_type = r2.period_type /\ r1.reference_date = r2.reference_date)
            => r1 = r2
    /\ \A c \in Callers :
         (req[c].pc = "raised" /\ req[c].op # "north_star") => NarrativeOf(req[c].failed) # {}

\* ---- the router
Routed == resp.kind \in { "route_entry", "route_entry_from_rules" }

ResultOf(rule) == RoutingResult(rule.entry_type, rule.target, rule.name)

\* the positions of the active rules whose pattern is valid and found in raw
Matching(raw, rules) ==
    { i \in DOMAIN rules :
        rules[i].is_active /\ re_search(rules[i].pattern, raw) = "match" }

\* C17: both routing functions return the (target, entry_type, name) of the
\* active matching rule with the highest priority and, among the matching
\* active rules of that priority, of the one earliest in the rule order.
C17_HighestPriorityEarliestWins ==
    Routed =>
        LET m == Matching(resp.raw, rules_router) IN
        m # {} =>
            \E i \in m :
                /\ resp.result = ResultOf(rules_router[i])
                /\ \A j \in m :
                     \/ rules_router[i].priority > rules_router[j].priority
                     \/ rules_router[i].priority = rules_router[j].priority /\ i <= j

\* C17, the part that holds for both functions: the result is that of an
\* active matching rule that no active matching rule exceeds in priority.
C17_HighestPriorityWins ==
    Routed =>
        LET m == Matching(resp.raw, rules_router) IN
        m # {} =>
            \E i \in m :
                /\ resp.result = ResultOf(rules_router[i])
                /\ \A j \in m : rules_router[i].priority >= rules_router[j].priority

\* C17, the part that holds for route_entry_from_rules: among equal priorities
\* the earliest rule of the list wins.
C17_ListOrderBreaksTies ==
    resp.kind = "route_entry_from_rules" =>
        LET m == Matching(resp.raw, rules_router) IN
        m # {} =>
            \E i \in m :
                /\ resp.result = ResultOf(rules_router[i])
                /\ \A j \in m :
                     \/ rules_router[i].priority > rules_router[j].priority
                     \/ rules_router[i].priority = rules_router[j].priority /\ i <= j

\* route_entry returned the later of two matching active rules of equal priority
C17_LaterRuleReturned ==
    /\ resp.kind = "route_entry"
    /\ \E i, j \in Matching(resp.raw, rules_router) :
         /\ i < j
         /\ rules_router[i].priority = rules_router[j].priority
         /\ resp.result = ResultOf(rules_router[j])

\* C18: routing returns the fallback (note, facts, no rule name) when no
\* active rule with a valid pattern matches the text, and only then; with a
\* matching rule the result carries that rule's name.
C18_FallbackIffNoMatch ==
    Routed =>
        /\ resp.result \in
             { Fallback } \cup { ResultOf(rules_router[i]) : i \in DOMAIN rules_router }
        /\ resp.result = Fallback <=> Matching(resp.raw, rules_router) = {}

\* the fallback was returned for a list that has an active rule with a valid
\* pattern, none of them matching
C18_Witness ==
    /\ Routed
    /\ resp.result = Fallback
    /\ \E i \in DOMAIN rules_router :
         rules_router[i].is_active /\ re_search(rules_router[i].pattern, resp.raw) = "none"

\* the fallback was returned for the empty text and the empty rule set
C18_EmptyTextEmptyRules ==
    Routed /\ resp.raw = <<>> /\ rules_router = <<>> /\ resp.result = Fallback

\* the rules without the inactive ones and the ones whose pattern is invalid
WithoutSkipped(rules) ==
    SelectSeq(rules, LAMBDA r : r.is_active /\ re_search(r.pattern, <<>>) # "error")

\* C19: the result of routing equals the result of routing against the rules
\* with the inactive rules and the rules of invalid pattern removed (for
\* route_entry: one of the results the query order allows), and it is a
\* routing result, never a failure.
C19_SkippedRulesHaveNoEffect ==
    /\ resp.kind = "route_entry_from_rules" =>
         resp.result = route_entry_from_rules_loop(
                           sorted_by_priority_reverse(WithoutSkipped(rules_router)), resp.raw)
    /\ resp.kind = "route_entry" =>
         resp.result \in
             { route_entry_loop(rules, resp.raw) :
               rules \in order_by_priority_desc(filter_is_active(WithoutSkipped(rules_router))) }
    /\ Routed => resp.result.rule_name \notin
         { rules_router[i].name : i \in { k \in DOMAIN rules_router :
              \/ ~rules_router[k].is_active
              \/ re_search(rules_router[k].pattern, resp.raw) = "error" } }

\* a rule of lower priority determined the result after an inactive rule that
\* would have matched, or a rule of invalid pattern, was passed over
C19_Witness ==
    /\ Routed
    /\ \E i, j \in DOMAIN rules_router :
         /\ rules_router[i].priority > rules_router[j].priority
         /\ \/ ~rules_router[i].is_active /\ re_search(rules_router[i].pattern, resp.raw) = "match"
            \/ rules_router[i].is_active /\ re_search(rules_router[i].pattern, resp.raw) = "error"
         /\ resp.result = ResultOf(rules_router[j])

\* ---- ingestion
DomainTables == { "tasks", "transactions", "facts", "metrics_daily", "projects" }

\* the step is a successful ingest
IngestStep == ops' = ops + 1 /\ resp'.kind = "ingest"

\* the number of rows the step adds to a domain table
Added(table) ==
    CASE table = "tasks" -> Cardinality(tasks' \ tasks)
      [] table = "transactions" -> Cardinality(transactions' \ transactions)
      [] table = "facts" -> Cardinality(facts' \ facts)
      [] table = "metrics_daily" -> Cardinality(metrics_daily' \ metrics_daily)
      [] table = "projects" -> Cardinality(projects' \ projects)

\* the table of the variant the claim gives each target
VariantTable(target) ==
    CASE target = "tasks" -> "tasks"
      [] target = "transactions" -> "transactions"
      [] target = "facts" -> "facts"
      [] target = "metrics" -> "metrics_daily"
      [] target = "projects" -> "projects"
      [] OTHER -> "none"

\* C20 as stated: a successful ingest adds exactly one Entry, and one record
\* of the matching variant when routed_to is tasks, transactions, facts,
\* metrics or projects, and no domain record for any other target.
C20_OneRecordByTarget ==
    [][ IngestStep =>
          /\ entries' \ entries = { resp'.entry }
          /\ entries \subseteq entries'
          /\ \A table \in DomainTables :
               Added(table) =
                   IF VariantTable(resp'.entry.routed_to) = table THEN 1 ELSE 0 ]_vars

\* C20, amended: a successful ingest adds exactly one Entry, and one record to
\* the table named by routed_to when that is tasks, transactions, facts,
\* metrics_daily or projects, and no domain record for any other target; no
\* row is removed.
C20_OneRecordByTable ==
    [][ IngestStep =>
          /\ entries' \ entries = { resp'.entry }
          /\ entries \subseteq entries'
          /\ tasks \subseteq tasks' /\ transactions \subseteq transactions'
          /\ facts \subseteq facts' /\ metrics_daily \subseteq metrics_daily'
          /\ projects \subseteq projects'
          /\ \A table \in DomainTables :
               Added(table) = IF resp'.entry.routed_to = table THEN 1 ELSE 0 ]_vars

\* an entry routed to metrics_daily was ingested with its metric, after an
\* entry routed to a target that is no table was ingested without a record
C20_Witness ==
    /\ resp.kind = "ingest"
    /\ resp.entry.routed_to = "metrics_daily"
    /\ \E m \in metrics_daily : m.entry_id = resp.entry.id
    /\ \E e \in entries : e.routed_to \in { "metrics", "archive" }
    /\ Cardinality(entries) = 2
    /\ Cardinality(tasks) + Cardinality(transactions) + Cardinality(facts)
         + Cardinality(metrics_daily) + Cardinality(projects) = 1

\* the rows the step adds to the table of a domain record
AddedRows(table) ==
    CASE table = "tasks" -> tasks' \ tasks
      [] table = "transactions" -> transactions' \ transactions
      [] table = "facts" -> facts' \ facts
      [] table = "metrics_daily" -> metrics_daily' \ metrics_daily
      [] table = "projects" -> projects' \ projects
      [] OTHER -> {}

\* C21: ingest_raw is atomic.  A call that fails leaves the committed store
\* with neither the Entry nor the domain record of the item; a call that
\* succeeds commits the Entry and its domain record in the same step.
C21_IngestAtomic ==
    [][ /\ (ops' = ops + 1 /\ resp'.kind = "ingest_failed") =>
             /\ UNCHANGED <<entries, tasks, transactions, facts, metrics_daily, projects>>
             /\ resp'.entry \notin entries'
        /\ IngestStep =>
             /\ entries' = entries \cup { resp'.entry }
             /\ resp'.entry \notin entries
             /\ resp'.domain_entity.table # "none" =>
                  AddedRows(resp'.domain_entity.table) = { Row(resp'.domain_entity) } ]_vars

\* an ingest failed on its domain record and its Entry is not in the store
C21_Witness ==
    /\ resp.kind = "ingest_failed"
    /\ resp.domain_entity.table = "metrics_daily"
    /\ \A e \in entries : e.id # resp.entry.id
    /\ \A m \in metrics_daily : m.entry_id # resp.entry.id
    /\ id_seq.entries = resp.entry.id

\* ---- batch ingestion
BatchStep == ops' = ops + 1 /\ resp'.kind = "ingest_batch"

\* the batch item at position i is a metric whose (name, day) is in the
\* store before the batch, or is the metric of an earlier item of the batch
DuplicateMetricAt(items, i) ==
    /\ items[i].target = "metrics_daily"
    /\ \/ \E m \in metrics_daily :
            m.name = MetricOf(items[i].raw).name /\ m.day = items[i].day
       \/ \E j \in 1..(i - 1) :
            /\ items[j].target = "metrics_daily"
            /\ MetricOf(items[j].raw).name = MetricOf(items[i].raw).name
            /\ items[j].day = items[i].day

\* C22: ingest_batch isolates a failing item.  The results have the length
\* and order of the input; an item fails exactly when its own record cannot
\* be stored, is then reported ok=false with an error, and leaves no Entry
\* and no domain record in the store; every other item is reported ok=true
\* and its Entry and record are committed; nothing else is added or removed.
C22_BatchIsolatesFailure ==
    [][ BatchStep =>
          LET items == resp'.items
              res == resp'.raw_results
              oks == { i \in DOMAIN res : res[i].ok }
          IN  /\ Len(res) = Len(items)
              /\ \A i \in DOMAIN res :
                   /\ res[i].index = i - 1
                   /\ res[i].ok <=> ~DuplicateMetricAt(items, i)
                   /\ res[i].ok =>
                        /\ res[i].error = NoError
                        /\ res[i].entry \in entries' \ entries
                        /\ res[i].entry.routed_to = items[i].target
                        /\ Row(res[i].domain_entity) \in AddedRows(res[i].domain_entity.table)
                   /\ ~res[i].ok =>
                        /\ res[i].error # NoError
                        /\ \A e \in entries' : e.id # res[i].entry.id
                        /\ \A m \in metrics_daily' : m.entry_id # res[i].entry.id
              /\ entries' = entries \cup { res[i].entry : i \in oks }
              /\ Cardinality(entries' \ entries) = Cardinality(oks)
              /\ Cardinality(tasks' \ tasks) + Cardinality(metrics_daily' \ metrics_daily)
                   = Cardinality(oks)
              /\ tasks \subseteq tasks' /\ metrics_daily \subseteq metrics_daily' ]_vars

\* a batch of three whose second item failed and whose first and third are
\* in the store
C22_Witness ==
    /\ resp.kind = "ingest_batch"
    /\ Len(resp.raw_results) = 3
    /\ resp.raw_results[1].ok /\ ~resp.raw_results[2].ok /\ resp.raw_results[3].ok
    /\ resp.raw_results[1].entry \in entries
    /\ resp.raw_results[3].entry \in entries
    /\ resp.raw_results[2].entry \notin entries

\* ---- extraction defaults
\* the step is an ingest_raw call, failed or not
IngestCall == ops' = ops + 1 /\ resp'.kind \in { "ingest", "ingest_failed" }

UnknownMetric(obj) ==
    obj.table = "metrics_daily" /\ obj.name = "unknown"

\* C23: an ingest routed to the metrics table whose text has not the metric
\* form succeeds in every store state and stores the Entry and a metric
\* ("unknown", 0, no unit); a transaction text with no amount succeeds with
\* amount 0.
C23_ExtractionNeverFatal ==
    [][ IngestCall =>
          LET obj == resp'.domain_entity IN
          /\ UnknownMetric(obj) =>
               /\ resp'.kind = "ingest"
               /\ obj.value = 0 /\ obj.unit = NoUnit
               /\ resp'.entry \in entries'
               /\ Row(obj) \in metrics_daily'
          /\ obj.table = "transactions" =>
               /\ resp'.kind = "ingest"
               /\ Row(obj) \in transactions' ]_vars

\* C23, the part that holds: the defaults are substituted (a text without the
\* metric form gives ("unknown", 0, no unit), digits that are no number give
\* value 0, a text without an amount gives amount 0), a transaction is always
\* stored, and a metric is stored unless its (name, day) is already there.
C23_DefaultsSubstituted ==
    [][ IngestCall =>
          LET obj == resp'.domain_entity IN
          /\ UnknownMetric(obj) => obj.value = 0 /\ obj.unit = NoUnit
          /\ obj.table = "metrics_daily" =>
               (resp'.kind = "ingest" <=>
                  ~\E m \in metrics_daily : m.name = obj.name /\ m.day = obj.day)
          /\ obj.table = "transactions" =>
               /\ resp'.kind = "ingest"
               /\ Row(obj) \in transactions'
               /\ obj.amount \in { 0, 5 } ]_vars

\* a second text without the metric form was ingested for a day and failed
C23_SecondUnknownFailed ==
    /\ resp.kind = "ingest_failed"
    /\ UnknownMetric(resp.domain_entity)
    /\ \E m \in metrics_daily : m.name = "unknown" /\ m.day = resp.entry.day
    /\ resp.entry \notin entries

\* ---- closing a day
\* C27: a day is closed successfully at most once (each successful close
\* leaves one daily_close snapshot: there is one per closed day), and at most
\* one daily log exists per day and it is closed.
C27_ClosedAtMostOnce ==
    /\ \A l \in daily_logs :
         /\ l.is_closed
         /\ Cardinality(LogsOf(l.day)) = 1
         /\ Cardinality({ s \in memory_snapshots : s.day = l.day }) = 1

\* C27, the part that holds: at most one daily log exists per day, every log
\* is closed, a close-day request that finds the day closed is rejected and
\* writes nothing, and a closed log is never reopened or removed.
C27_OneLogNeverReopened ==
    [][ /\ \A l \in daily_logs' : l.is_closed /\ Cardinality({ k \in daily_logs' : k.day = l.day }) = 1
        /\ \A l \in daily_logs : \E k \in daily_logs' : k.day = l.day /\ k.is_closed
        /\ \A c \in Callers :
             (req'[c].pc = "rejected" /\ req[c].pc # "rejected") =>
                 /\ UNCHANGED <<daily_logs, memory_snapshots>>
                 /\ \E l \in daily_logs : l.day = req'[c].date /\ l.is_closed ]_vars

\* two close-day requests for one day both returned success
C27_ClosedTwice ==
    \E d \in Days :
        /\ Cardinality({ s \in memory_snapshots : s.day = d }) = 2
        /\ \A c \in Callers : req[c].op = "close_day" /\ req[c].pc = "returned" /\ req[c].date = d

\* ---- the event store
\* C24: entries are append-only.  No step of any operation removes or changes
\* a committed Entry; a successful ingest adds exactly one, a batch adds one
\* per item that succeeded, and every other operation (the compilers, the
\* daily and weekly score, the reactor, close-day, a failed ingest) adds none.
C24_EntriesAppendOnly ==
    [][ /\ entries \subseteq entries'
        /\ IngestStep => Cardinality(entries' \ entries) = 1
        /\ BatchStep =>
             Cardinality(entries' \ entries) =
                 Cardinality({ i \in DOMAIN resp'.raw_results : resp'.raw_results[i].ok })
        /\ ~(IngestStep \/ BatchStep) => entries' = entries ]_vars

\* an Entry that was ingested is in the store after the day was closed
C24_Witness ==
    /\ resp.kind = "ingest"
    /\ resp.entry \in entries
    /\ req[1].op = "close_day" /\ req[1].pc = "returned"
    /\ \E l \in daily_logs : l.day = resp.entry.day

\* ---- completeness over time
\* C29: completeness is monotone.  A day that _check_day finds complete is
\* found complete after every step of every operation, the response of the
\* daily score is _check_day of the store, and so the complete_days of the
\* weekly score of a fixed reference date never decreases.
C29_CompletenessMonotone ==
    [][ /\ \A d \in Days : _check_day(d).is_complete => (_check_day(d).is_complete)'
        /\ \A r \in RefDates :
             calculate_weekly_clarity(r).complete_days
                 <= (calculate_weekly_clarity(r).complete_days)'
        /\ (resp'.kind = "north_star_day" /\ resp' # resp) =>
             \A d \in Days : resp'.daily.day = d => resp'.daily = (_check_day(d))' ]_vars

\* the daily score reported a day complete that had been reported complete
\* before an entry was ingested for it
C29_Witness ==
    /\ resp.kind = "north_star_day"
    /\ resp.daily.is_complete
    /\ resp.daily.event_count > MIN_EVENTS
    /\ ops > 0

\* ---- the event log
\* C25: BehaviorEvents are append-only, first writer wins.  No step of a react
\* call changes or removes a committed event (identifier, key and metadata
\* stay), and a step adds an event only under a key no committed event has;
\* so a later call for the same reference date whose week no longer triggers
\* the rule, or would give other metadata, leaves the event as it was.
C25_EventsAppendOnly ==
    [][ /\ behavior_events \subseteq behavior_events'
        /\ \A n \in behavior_events' \ behavior_events :
             EventsFor(n.event_type, n.reference_date) = {} ]_vars

\* a call returned for a reference date whose clarity_warning event was written
\* for a week of another score: its week triggers the rule with other metadata,
\* and the call skipped it
C25_Witness ==
    \E c \in Callers : \E e \in behavior_events :
        /\ sess[c].pc = "returned"
        /\ e.event_type = CLARITY_WARNING
        /\ e.reference_date = sess[c].weekly.reference_date
        /\ e.event_metadata.score # sess[c].weekly.clarity_score
        /\ CLARITY_WARNING \in Skipped(c)

\* the same, with a week that no longer triggers the rule
C25_NoLongerTriggered ==
    \E c \in Callers : \E e \in behavior_events :
        /\ sess[c].pc = "returned"
        /\ e.event_type = CLARITY_WARNING
        /\ e.reference_date = sess[c].weekly.reference_date
        /\ ~ ClarityWarningTrigger(sess[c].weekly)

\* ---- the result of a react call
\* C28: the result of react is faithful to the store.  When a call returns,
\* also one that raced with another caller on its reference date, its own
\* transaction was committed, so every event type in events_created has its
\* event in the store, and task_created implies that the Reset Day Protocol
\* task of the reference date is in the store together with the event that
\* records its id.
C28_ResultFaithful ==
    \A c \in Callers :
        sess[c].pc = "returned" =>
            LET r == sess[c].weekly.reference_date IN
            /\ Created(c) # {} => sess[c].lost = {}
            /\ \A t \in Created(c) : EventsFor(t, r) # {}
            /\ sess[c].result.task_created =>
                 \E k \in ResetTasksFor(r) : \E e \in EventsFor(RESET_DAY_PROTOCOL, r) :
                     e.event_metadata.task_id = k.id

\* C28, for the calls whose commit was not refused: the part that holds
C28_CommittedResultFaithful ==
    \A c \in Callers :
        (sess[c].pc = "returned" /\ sess[c].lost = {}) =>
            LET r == sess[c].weekly.reference_date IN
            /\ \A t \in Created(c) : EventsFor(t, r) # {}
            /\ sess[c].result.task_created =>
                 \E k \in ResetTasksFor(r) : \E e \in EventsFor(RESET_DAY_PROTOCOL, r) :
                     e.event_metadata.task_id = k.id

\* two calls returned task_created and reset_day_protocol as created for one
\* reference date, and the store holds one Reset Day Protocol task and one
\* event for it: the commit of one of them was refused and rolled back
C28_TwoReportOneTask ==
    \E c \in Callers : \E d \in Callers \ {c} :
        /\ sess[c].pc = "returned" /\ sess[d].pc = "returned"
        /\ sess[c].weekly.reference_date = sess[d].weekly.reference_date
        /\ sess[c].result.task_created /\ sess[d].result.task_created
        /\ RESET_DAY_PROTOCOL \in Created(c) \cap Created(d)
        /\ Cardinality(ResetTasksFor(sess[c].weekly.reference_date)) = 1
        /\ Cardinality(EventsFor(RESET_DAY_PROTOCOL, sess[c].weekly.reference_date)) = 1

\* ---- the emotional state of a day
\* POST /memory/compile-day for day 7 over stores that differ in what the day
\* holds: no entry, one, or 14 or 15; tasks at the boundaries of the done
\* ratio; no transaction, an income, an expense or both; 0, 2 or 3 facts.  A
\* day without entries holds at most the pending task the reactor wrote.
EmotionTasks == { << 0, 0 >>, << 0, 1 >>, << 1, 1 >>, << 2, 10 >>, << 3, 10 >>,
                  << 6, 10 >>, << 7, 10 >> }
EmotionTxTypes == { {}, { "income" }, { "expense" }, { "income", "expense" } }
EmotionDays ==
    { d \in [ total_entries : { 0, 1, 14, 15 }, tasks : EmotionTasks,
              tx_types : EmotionTxTypes, facts_count : { 0, 2, 3 } ] :
        \/ d.tasks[2] + Cardinality(d.tx_types) + d.facts_count <= d.total_entries
        \/ /\ d.total_entries = 0
           /\ d.tasks = << 0, 1 >>
           /\ d.tx_types = {}
           /\ d.facts_count = 0 }

InitEmotion ==
    /\ \E d \in EmotionDays :
         /\ entries = { [ id |-> j, day |-> TOTAL_DAYS, routed_to |-> "facts" ] :
                        j \in 1..d.total_entries }
         /\ tasks = { [ id |-> j,
                        title |-> IF d.total_entries = 0 THEN RESET_TITLE ELSE "ingested",
                        status |-> IF j <= d.tasks[1] THEN "done" ELSE "pending",
                        day |-> TOTAL_DAYS ] : j \in 1..d.tasks[2] }
         /\ transactions = { [ id |-> IF x = "income" THEN 1 ELSE 2, day |-> TOTAL_DAYS,
                               amount |-> 5, tx_type |-> x ] : x \in d.tx_types }
         /\ facts = { [ id |-> j, entry_id |-> j, content |-> RawOf("facts"),
                        day |-> TOTAL_DAYS ] : j \in 1..d.facts_count }
         /\ id_seq = [ entries |-> d.total_entries, transactions |-> 2,
                       narrative_memory |-> 0, north_star_snapshots |-> 0,
                       facts |-> d.facts_count, metrics_daily |-> 0, projects |-> 0 ]
         /\ task_id_seq = d.tasks[2]
    /\ narrative_memory = {}
    /\ north_star_snapshots = {}
    /\ behavior_events = {}
    /\ metrics_daily = {}
    /\ projects = {}
    /\ daily_logs = {}
    /\ memory_snapshots = {}
    /\ event_id_seq = 0
    /\ NoRequests
    /\ NoReactor

NextEmotion == compile_day_memory(TOTAL_DAYS)

SpecEmotion == InitEmotion /\ [][NextEmotion]_vars

ProductivityLabels == { "productive", "progressing", "backlogged" }
CashflowLabels == { "financially_positive", "financially_cautious" }

\* C26: the emotional-state label of a compiled day is never empty; it is
\* "quiet" iff the day has no entry, whatever else the day holds; it is
\* "neutral" when the day has entries and no label applies; otherwise it is
\* the labels that apply joined by "+" in the order productivity, cashflow,
\* knowledge_rich, data_rich.
C26_EmotionalStateLabel ==
    \A n \in narrative_memory :
        (n.date = TOTAL_DAYS /\ n.snapshot_type = "daily") =>
            LET label == n.fields.emotional_state
                total_entries == Cardinality({ e \in entries : e.day = TOTAL_DAYS })
                day_tasks == { k \in tasks : k.day = TOTAL_DAYS }
                day_txs == { x \in transactions : x.day = TOTAL_DAYS }
                net == SumAmounts({ x \in day_txs : x.tx_type = "income" }) -
                       SumAmounts({ x \in day_txs : x.tx_type = "expense" })
                p == day_tasks # {}
                c == net # 0
                k == Cardinality({ f \in facts : f.day = TOTAL_DAYS }) >= 3
                v == total_entries >= 15
            IN  /\ label # <<>>
                /\ (label = << "quiet" >>) <=> (total_entries = 0)
                /\ (total_entries > 0 /\ ~ (p \/ c \/ k \/ v)) => label = << "neutral" >>
                /\ (total_entries > 0 /\ (p \/ c \/ k \/ v)) =>
                     \E pl \in ProductivityLabels : \E cl \in CashflowLabels :
                         /\ cl = "financially_positive" <=> net > 0
                         /\ label = join("+", (IF p THEN << pl >> ELSE <<>>) \o
                                              (IF c THEN << cl >> ELSE <<>>) \o
                                              (IF k THEN << "knowledge_rich" >> ELSE <<>>) \o
                                              (IF v THEN << "data_rich" >> ELSE <<>>))

\* a day with 15 entries, 7 of 10 tasks done, an expense and 3 facts was
\* compiled: all four labels, joined in order
C26_Witness ==
    \E n \in narrative_memory :
        /\ n.date = TOTAL_DAYS /\ n.snapshot_type = "daily"
        /\ n.fields.emotional_state =
             << "productive", "+", "financially_cautious", "+", "knowledge_rich", "+",
                "data_rich" >>

\* a day without entries that holds the reactor's task was compiled: "quiet"
C26_QuietDespiteTask ==
    \E n \in narrative_memory :
        /\ n.date = TOTAL_DAYS /\ n.snapshot_type = "daily"
        /\ n.fields.emotional_state = << "quiet" >>
        /\ \E k \in tasks : k.day = TOTAL_DAYS

\* ---- the weekly compile and the daily snapshots
CompileWeekStep == ops' = ops + 1 /\ resp'.kind = "compile_week"

\* C30: compileWeek(weekStart) calls the daily compiler only for the days of
\* its window that have no daily snapshot.  Every daily snapshot stored before
\* the call is stored after it with the same identifier and content, the new
\* daily snapshots are those of the days of the window that had none, and the
\* weekly snapshot holds the aggregate of the daily snapshots stored, not of
\* the records of the days.
C30_WeekCompilesMissingDaysOnly ==
    /\ [][ CompileWeekStep =>
              \A ws \in WeekStarts : resp'.date = ws =>
                /\ \A r \in narrative_memory :
                     r.snapshot_type = "daily" => r \in narrative_memory'
                /\ { r.date : r \in { n \in narrative_memory' \ narrative_memory :
                                        n.snapshot_type = "daily" } }
                     = { d \in ws..(ws + 6) : SnapshotsOf(d, "daily") = {} } ]_vars
    /\ [](resp.kind = "compile_week" =>
             \A r \in SnapshotsOf(resp.date, "weekly") :
                 r.fields = StoredWeekFields(resp.date))

\* a week was compiled that had a day with no daily snapshot and a day whose
\* daily snapshot was compiled before an entry was ingested for it: the first
\* day got its snapshot, the second keeps the snapshot that does not show the entry
C30_Witness ==
    /\ resp.kind = "compile_week"
    /\ ~ resp.existing
    /\ \E d \in resp.date..(resp.date + 6) : \E r \in SnapshotsOf(d, "daily") :
         << d, "daily", r.id >> \in hist.compiled
    /\ \E d \in resp.date..(resp.date + 6) : \E r \in SnapshotsOf(d, "daily") :
         /\ << d, "daily", r.id >> \notin hist.compiled
         /\ r.fields # DayFields(d)

====
